---- MODULE Spec2Model ----
(***************************************************************************)
(* A model of abletoolz (elixirbeats/abletoolz): the version gate, the     *)
(* Document operations of AbletonSet, the hex path codec, the hex/xml      *)
(* transcoder and the sample repair loop (fix_samples).                    *)
(*                                                                         *)
(* Python values are modelled as follows.  A str is a sequence of          *)
(* one-character strings (Chars("ab") = <<"a","b">>); bytes are sequences  *)
(* of integers 0..255; decoded text is a sequence of code points; an       *)
(* Optional value or a raised exception is a record tagged by "kind".      *)
(***************************************************************************)
EXTENDS Integers, Sequences, FiniteSets, TLC

VARIABLES
    \* version_supported(set_version, supported_version) and its result
    set_version, supported_version, vs_result,
    \* AbletonSet: the container on disk, self.root, self.version,
    \* self.version_tuple, self.tracks, self.bpm, the last call and its
    \* outcome, and the number of calls made so far
    file, root, version, version_tuple, tracks, bpm, last, calls,
    \* the path codec: the path str given to string_to_hex, the bytes a Data
    \* text was written from, the Data text given to parse_hex_path, what
    \* parse_hex_path did, AbletonSet.set_os, and the position of the run
    path_str, raw_bytes, hex_text, codec_out, set_os, codec_pc,
    \* the Data text transcoder: the text read, what xml_to_string returned
    \* for it, the text string_to_xml wrote, what xml_to_string returned for
    \* that, and the position of the run
    xml_text, xml_first, xml_out, xml_back, xml_pc,
    \* fix_samples: the Document (its path, version_tuple,
    \* project_root_folder, sample_list and the SampleRef nodes of its tree),
    \* the arguments db, collect_and_save and force, the locals found_samples,
    \* missing_samples and fixed_samples, the files and the directories on
    \* disk, the position of the loop, the exception that ended the run, what
    \* was done for each reference, and the counts of the final log line
    ableton_set, db, collect_and_save, force, found_samples, missing_samples,
    fixed_samples, fs, dirs, fix_i, fix_pc, fix_exc, fix_log, report,
    \* save_set: self.path, self.last_modification_time (<<>> for None), the
    \* files of the set directory and of its backup directory, the backup
    \* made by the save under way, the position of save_set and the
    \* exception of the last call, the position and the exception of the
    \* thread running write_set, and the number of save_set calls so far
    save_path, last_modification_time, disk, backup_dir, backup_path,
    save_pc, save_exc, thread_pc, thread_exc, save_count,
    \* cli.process: the sets of the batch, the index of the current one, the
    \* position in process / process_set, the sets process_set was called
    \* for, the exception that left process, and whether standard output is
    \* a terminal
    batch, batch_i, proc_pc, attempted, batch_exc, terminal

versionVars == <<set_version, supported_version, vs_result>>

docVars == <<file, root, version, version_tuple, tracks, bpm, last, calls>>

codecVars == <<path_str, raw_bytes, hex_text, codec_out, set_os, codec_pc>>

xmlVars == <<xml_text, xml_first, xml_out, xml_back, xml_pc>>

fixVars ==
    <<ableton_set, db, collect_and_save, force, found_samples, missing_samples,
      fixed_samples, fs, dirs, fix_i, fix_pc, fix_exc, fix_log, report>>

saveVars ==
    <<save_path, last_modification_time, disk, backup_dir, backup_path,
      save_pc, save_exc, thread_pc, thread_exc, save_count>>

batchVars == <<batch, batch_i, proc_pc, attempted, batch_exc, terminal>>

vars == <<versionVars, docVars, codecVars, xmlVars, fixVars, saveVars, batchVars>>

(***************************************************************************)
(* Generic helpers.                                                        *)
(***************************************************************************)
\* A Python str literal as a sequence of one-character strings.
Chars(s) == [i \in 1..Len(s) |-> SubSeq(s, i, i)]

MinOf(a, b) == IF a < b THEN a ELSE b

MaxOf(a, b) == IF a > b THEN a ELSE b

(***************************************************************************)
(* version_supported: the loop over zip(set_version, supported_version).  *)
(***************************************************************************)
RECURSIVE VersionSupportedFrom(_, _, _)
VersionSupportedFrom(set_v, supported_v, i) ==
    IF i > MinOf(Len(set_v), Len(supported_v)) THEN TRUE
    ELSE IF set_v[i] > supported_v[i] THEN TRUE
    ELSE IF set_v[i] < supported_v[i] THEN FALSE
    ELSE VersionSupportedFrom(set_v, supported_v, i + 1)

\* Mutant of version_supported: a tie on every component counts as unsupported (strict >).
version_supported_strict(set_v, supported_v) ==
    set_v # supported_v /\ VersionSupportedFrom(set_v, supported_v, 1)

version_supported(set_v, supported_v) ==
    VersionSupportedFrom(set_v, supported_v, 1)

(***************************************************************************)
(* SpecVersion: version_supported applied to every pair of triples whose  *)
(* components lie in 0..MaxVersionPart.                                    *)
(***************************************************************************)
MaxVersionPart == 2

VersionTriples == (0..MaxVersionPart) \X (0..MaxVersionPart) \X (0..MaxVersionPart)

VersionIdle ==
    /\ set_version = <<0, 0, 0>>
    /\ supported_version = <<0, 0, 0>>
    /\ vs_result = "idle"

VersionInit ==
    /\ set_version \in VersionTriples
    /\ supported_version \in VersionTriples
    /\ vs_result = "pending"

VersionSupportedCall ==
    /\ vs_result = "pending"
    /\ vs_result' = IF version_supported(set_version, supported_version)
                    THEN "True" ELSE "False"
    /\ UNCHANGED <<set_version, supported_version>>

(***************************************************************************)
(* Python text helpers.                                                    *)
(***************************************************************************)
DigitChars == Chars("0123456789")

IsDigit(c) == \E i \in 1..10 : DigitChars[i] = c

DigitValue(c) == (CHOOSE i \in 1..10 : DigitChars[i] = c) - 1

\* int(x) of a non-empty string of decimal digits.
RECURSIVE ParseInt(_)
ParseInt(s) ==
    IF Len(s) = 0 THEN 0
    ELSE 10 * ParseInt(SubSeq(s, 1, Len(s) - 1)) + DigitValue(s[Len(s)])

\* str(n) of an int.
RECURSIVE NatToStr(_)
NatToStr(n) ==
    IF n < 10 THEN <<DigitChars[n + 1]>>
    ELSE NatToStr(n \div 10) \o <<DigitChars[(n % 10) + 1]>>

IntToStr(n) == IF n < 0 THEN <<"-">> \o NatToStr(0 - n) ELSE NatToStr(n)

\* The number of leading characters of s[from..] that are digits, at most most.
RECURSIVE DigitRun(_, _, _)
DigitRun(s, from, most) ==
    IF most = 0 \/ from > Len(s) \/ ~IsDigit(s[from]) THEN 0
    ELSE 1 + DigitRun(s, from + 1, most - 1)

\* Whether the characters of lit occur in s starting at position i.
StartsWithAt(s, i, lit) ==
    /\ i + Len(lit) - 1 <= Len(s)
    /\ \A k \in 1..Len(lit) : s[i + k - 1] = lit[k]

\* x in s, for two str.
Contains(s, lit) == \E i \in 1..(Len(s) + 1) : StartsWithAt(s, i, lit)

\* s.split()[-1]: the last whitespace-separated token of s (s has one).
IsSpace(c) == c \in {" ", "\t", "\n"}

LastToken(s) ==
    LET e == CHOOSE i \in 1..Len(s) :
                 ~IsSpace(s[i]) /\ \A j \in (i + 1)..Len(s) : IsSpace(s[j])
        b == CHOOSE i \in 1..e :
                 /\ \A j \in i..e : ~IsSpace(s[j])
                 /\ (i = 1 \/ IsSpace(s[i - 1]))
    IN SubSeq(s, b, e)

\* Python's order on tuples of int (a < b), as used by "version > (11, 0, 0)".
RECURSIVE TupleLessFrom(_, _, _)
TupleLessFrom(a, b, i) ==
    IF i > Len(a) \/ i > Len(b) THEN Len(a) < Len(b)
    ELSE IF a[i] # b[i] THEN a[i] < b[i]
    ELSE TupleLessFrom(a, b, i + 1)

TupleLess(a, b) == TupleLessFrom(a, b, 1)

(***************************************************************************)
(* The Document (AbletonSet).  The element tree is a record holding, for  *)
(* each path the operations look up, the list of matching elements as     *)
(* findall returns it (an absent element is the empty list), each element *)
(* given by its Value attribute.                                          *)
(***************************************************************************)
NoneValue == [kind |-> "None"]

StrValue(s) == [kind |-> "str", val |-> s]

\* misc.STEREO_OUTPUTS
STEREO_OUTPUTS == <<
    [target |-> "AudioOut/External/S0", lower_display_string |-> "1/2"],
    [target |-> "AudioOut/External/S1", lower_display_string |-> "3/4"],
    [target |-> "AudioOut/External/S2", lower_display_string |-> "5/6"],
    [target |-> "AudioOut/External/S3", lower_display_string |-> "7/8"],
    [target |-> "AudioOut/External/S4", lower_display_string |-> "9/10"],
    [target |-> "AudioOut/External/S5", lower_display_string |-> "11/12"],
    [target |-> "AudioOut/External/S6", lower_display_string |-> "13/14"],
    [target |-> "AudioOut/External/S7", lower_display_string |-> "15/16"],
    [target |-> "AudioOut/External/S8", lower_display_string |-> "17/18"],
    [target |-> "AudioOut/External/S9", lower_display_string |-> "19/20"] >>

\* The outcome of a call: what it returned, the exception it raised ("none"
\* when it returned), the message it logged or the lookup that failed, and
\* whether the decorated function itself was entered (body) or a decorator
\* (set_loaded, above_version) raised before calling it.
Outcome(op, arg, ret, exc, log, body) ==
    [op |-> op, arg |-> arg, ret |-> ret, exc |-> exc, log |-> log, body |-> body]

Returned(op, arg, ret, log) == Outcome(op, arg, ret, "none", log, TRUE)

Raised(op, arg, exc, log) == Outcome(op, arg, "None", exc, log, TRUE)

Refused(op, arg, exc, log) == Outcome(op, arg, "None", exc, log, FALSE)

(***************************************************************************)
(* load_version: the creator pattern                                      *)
(*   Ableton Live ([0-9]{1,2})\.([0-9]{1,3})[\.b]{0,1}([0-9]{1,3}){0,1}   *)
(* matched the way re.findall does: leftmost start, greedy quantifiers.   *)
(* Everything after the minor number is optional, so the only            *)
(* backtracking is over the length of the major number.                   *)
(***************************************************************************)
CreatorPrefix == Chars("Ableton Live ")

\* The groups of the match starting at position i, or <<>> when there is none.
CreatorMatchAt(s, i) ==
    LET p == i + Len(CreatorPrefix)
        majors == {n \in 1..DigitRun(s, p, 2) : p + n <= Len(s) /\ s[p + n] = "."}
    IN IF ~StartsWithAt(s, i, CreatorPrefix) \/ majors = {} THEN <<>>
       ELSE LET nmaj == CHOOSE n \in majors : \A m \in majors : m <= n
                q == p + nmaj + 1
                nmin == DigitRun(s, q, 3)
            IN IF nmin = 0 THEN <<>>
               ELSE LET r == q + nmin
                        sep == IF r <= Len(s) /\ s[r] \in {".", "b"} THEN 1 ELSE 0
                        t == r + sep
                        npat == DigitRun(s, t, 3)
                    IN << SubSeq(s, p, p + nmaj - 1),
                          SubSeq(s, q, q + nmin - 1),
                          SubSeq(s, t, t + npat - 1) >>

\* re.findall(...)[0], or <<>> when findall returns the empty list.
CreatorFindFirst(s) ==
    LET starts == {i \in 1..Len(s) : CreatorMatchAt(s, i) # <<>>}
    IN IF starts = {} THEN <<>>
       ELSE CreatorMatchAt(s, CHOOSE i \in starts : \A j \in starts : i <= j)

\* [int(x) if x.isdigit() else x for x in parsed[0] if x != ""]
ParsedNumbers(groups) ==
    LET kept == SelectSeq(groups, LAMBDA g : g # <<>>)
    IN [i \in 1..Len(kept) |-> ParseInt(kept[i])]

\* The body of load_version for a loaded root: (version, version_tuple, outcome).
LoadVersionBody(r, old_tuple) ==
    IF r.Creator.kind # "str"
    THEN [version |-> r.Creator, version_tuple |-> old_tuple,
          out |-> Raised("load_version", "", "SetError", "no creator")]
    ELSE LET groups == CreatorFindFirst(r.Creator.val)
             parsed == ParsedNumbers(groups)
             beta == Contains(LastToken(r.Creator.val), <<"b">>)
         IN IF groups = <<>>
            THEN [version |-> r.Creator, version_tuple |-> old_tuple,
                  out |-> Raised("load_version", "", "SetError", "no version")]
            ELSE [version |-> r.Creator,
                  version_tuple |->
                      IF Len(parsed) = 3 THEN parsed
                      ELSE <<parsed[1], parsed[2], 0>>,
                  out |-> Returned("load_version", "", "None",
                                   IF beta THEN "beta warning" ELSE "info")]

(***************************************************************************)
(* The containers on disk.  A container starts with two magic bytes; a    *)
(* gzip container holds the xml text of a tree (or nothing).              *)
(***************************************************************************)
Routing(target, lower) == [Target |-> target, LowerDisplayString |-> lower]

NoRouting == Routing(<<>>, <<>>)

OldRouting == Routing(<<"AudioOut/External/S3">>, <<"7/8">>)

\* A tree with the given Creator attribute; shape selects which elements exist:
\*   "modern"  routing and tempo under DeviceChain, two well-formed tracks
\*   "live8"   master routing under MasterChain, tempo as a FloatEvent
\*   "partial" a routing Target without its LowerDisplayString, a track
\*             lacking the elements AbletonTrack requires, no tempo
\*   "bare"    none of these elements
Tree(creator, shape) ==
    [kind |-> "Element",
     Creator |-> creator,
     LaneHeight |-> IF shape = "bare" THEN <<>> ELSE <<Chars("68"), Chars("17")>>,
     ViewStateSesstionTrackWidth |->
         IF shape = "bare" THEN <<>> ELSE <<Chars("93"), Chars("264")>>,
     TrackUnfolded |-> IF shape = "bare" THEN <<>> ELSE <<"true", "false">>,
     Tracks |->
         CASE shape = "bare" -> <<>>
           [] shape = "partial" ->
                << << [tag |-> "AudioTrack", complete |-> TRUE],
                      [tag |-> "MidiTrack", complete |-> FALSE] >> >>
           [] OTHER ->
                << << [tag |-> "AudioTrack", complete |-> TRUE],
                      [tag |-> "MidiTrack", complete |-> TRUE] >> >>,
     TempoManual |-> IF shape = "modern" THEN <<"120">> ELSE <<>>,
     TempoFloatEvent |-> IF shape = "live8" THEN <<"98.5">> ELSE <<>>,
     AudioOutputRouting |->
         [MasterTrack |->
              [DeviceChain |->
                   CASE shape = "modern" -> OldRouting
                     [] shape = "partial" ->
                          Routing(<<"AudioOut/External/S3">>, <<>>)
                     [] OTHER -> NoRouting,
               MasterChain |-> IF shape = "live8" THEN OldRouting ELSE NoRouting],
          PreHearTrack |->
              [DeviceChain |->
                   IF shape \in {"modern", "live8"} THEN OldRouting ELSE NoRouting,
               MasterChain |-> NoRouting]]]

CreatorStrings ==
    { Chars("Ableton Live 7.0.18"), Chars("Ableton Live 8.0"),
      Chars("Ableton Live 8.1.9"), Chars("Ableton Live 8.2"),
      Chars("Ableton Live 9.7.7"), Chars("Ableton Live 10.1.30"),
      Chars("Ableton Live 11.0"), Chars("Ableton Live 11.0b3"),
      Chars("Ableton Live 11.0.1"), Chars("Live 9") }

Trees ==
    { Tree(StrValue(c), "modern") : c \in CreatorStrings }
    \cup { Tree(StrValue(Chars("Ableton Live 8.0")), "live8"),
           Tree(StrValue(Chars("Ableton Live 8.2")), "live8"),
           Tree(StrValue(Chars("Ableton Live 9.7.7")), "partial"),
           Tree(StrValue(Chars("Ableton Live 10.1.30")), "bare"),
           Tree(NoneValue, "modern") }

Files ==
    { [magic |-> "1f8b", data |-> t] : t \in Trees }
    \cup { [magic |-> "1f8b", data |-> NoneValue],
           [magic |-> "ab1e", data |-> NoneValue],
           [magic |-> "other", data |-> NoneValue] }

\* The number of calls made on one Document in a run of the model.
MaxCalls == 3

DocIdle ==
    /\ file = [magic |-> "other", data |-> NoneValue]
    /\ root = NoneValue
    /\ version = NoneValue
    /\ version_tuple = <<>>
    /\ tracks = <<>>
    /\ bpm = NoneValue
    /\ last = Outcome("idle", "", "None", "none", "", FALSE)
    /\ calls = 0

\* AbletonSet.__init__
DocInit ==
    /\ file \in Files
    /\ root = NoneValue
    /\ version = NoneValue
    /\ version_tuple = <<>>
    /\ tracks = <<>>
    /\ bpm = NoneValue
    /\ last = Outcome("init", "", "None", "none", "", FALSE)
    /\ calls = 0

CanCall == calls < MaxCalls /\ last.op # "idle"

\* AbletonSet.parse.  (get_file_times only records the file's timestamps.)
Parse ==
    /\ CanCall
    /\ calls' = calls + 1
    /\ IF file.magic = "ab1e"
       THEN root' = root /\ last' = Returned("parse", "", "False", "pre 8.2")
       ELSE IF file.magic # "1f8b"
       THEN root' = root /\ last' = Returned("parse", "", "False", "not gzip")
       ELSE IF file.data = NoneValue
       THEN root' = root /\ last' = Returned("parse", "", "False", "no data")
       ELSE root' = file.data /\ last' = Returned("parse", "", "True", "")
    /\ UNCHANGED <<file, version, version_tuple, tracks, bpm>>

\* AbletonSet.load_version, under @set_loaded.
LoadVersion ==
    /\ CanCall
    /\ calls' = calls + 1
    /\ IF root = NoneValue
       THEN /\ last' = Refused("load_version", "", "SetError", "Set is not loaded!")
            /\ UNCHANGED <<version, version_tuple>>
       ELSE LET res == LoadVersionBody(root, version_tuple)
            IN /\ version' = res.version
               /\ version_tuple' = res.version_tuple
               /\ last' = res.out
    /\ UNCHANGED <<file, root, tracks, bpm>>

\* Mutant of AboveVersion: the two versions are passed the wrong way round.
AboveVersionSwapped(supported) ==
    IF version_tuple = <<>> THEN "TypeError"
    ELSE IF ~version_supported(supported, version_tuple) THEN "SetError"
    ELSE "pass"

\* above_version(supported_version).wrapped_func, up to the call of f:
\* "pass" when f is called, else the exception raised.  A version_tuple of
\* None makes zip() raise TypeError.
AboveVersion(supported) ==
    IF version_tuple = <<>> THEN "TypeError"
    ELSE IF ~version_supported(version_tuple, supported) THEN "SetError"
    ELSE "pass"

GateLog(gate) == IF gate = "SetError" THEN "not supported for this version!" ELSE ""

\* AbletonTrack.__init__ on the track elements from index i on: the tracks
\* appended before a track lacking a required element raises ElementNotFound.
RECURSIVE BuildTracks(_, _, _)
BuildTracks(elems, i, acc) ==
    IF i > Len(elems) THEN [tracks |-> acc, exc |-> "none"]
    ELSE IF ~elems[i].complete THEN [tracks |-> acc, exc |-> "ElementNotFound"]
    ELSE BuildTracks(elems, i + 1,
             Append(acc, [type |-> elems[i].tag,
                          color_element |->
                              IF TupleLess(<<11, 0, 0>>, version_tuple)
                              THEN "Color" ELSE "ColorIndex"]))

\* AbletonSet.load_tracks, under @above_version((8, 0, 0)).
LoadTracks ==
    /\ CanCall
    /\ calls' = calls + 1
    /\ LET gate == AboveVersion(<<8, 0, 0>>)
       IN IF gate # "pass"
          THEN tracks' = tracks /\ last' = Refused("load_tracks", "", gate, GateLog(gate))
          ELSE IF root = NoneValue
          THEN tracks' = tracks
               /\ last' = Raised("load_tracks", "", "AttributeError", "")
          ELSE IF root.Tracks = <<>>
          THEN tracks' = tracks
               /\ last' = Raised("load_tracks", "", "ElementNotFound", "LiveSet.Tracks")
          ELSE LET res == BuildTracks(root.Tracks[1], 1, tracks)
               IN /\ tracks' = res.tracks
                  /\ last' = Outcome("load_tracks", "", "None", res.exc, "", TRUE)
    /\ UNCHANGED <<file, root, version, version_tuple, bpm>>

\* AbletonSet.get_bpm, under @above_version((8, 2, 0)).  float(None) raises
\* TypeError when the silent lookup of the Manual tempo finds nothing.
GetBpm ==
    /\ CanCall
    /\ calls' = calls + 1
    /\ LET gate == AboveVersion(<<8, 2, 0>>)
           major == version_tuple[1]
           minor == version_tuple[2]
       IN IF gate # "pass"
          THEN bpm' = bpm /\ last' = Refused("get_bpm", "", gate, GateLog(gate))
          ELSE IF root = NoneValue
          THEN bpm' = bpm /\ last' = Raised("get_bpm", "", "AttributeError", "")
          ELSE IF major >= 10 \/ (major >= 9 /\ minor >= 7)
          THEN IF root.TempoManual = <<>>
               THEN bpm' = bpm /\ last' = Raised("get_bpm", "", "TypeError", "float(None)")
               ELSE /\ bpm' = StrValue(root.TempoManual[1])
                    /\ last' = Returned("get_bpm", "", root.TempoManual[1], "")
          ELSE IF root.TempoFloatEvent = <<>>
               THEN bpm' = bpm
                    /\ last' = Raised("get_bpm", "", "ElementNotFound", "FloatEvent")
               ELSE /\ bpm' = StrValue(root.TempoFloatEvent[1])
                    /\ last' = Returned("get_bpm", "", root.TempoFloatEvent[1], "")
    /\ UNCHANGED <<file, root, version, version_tuple, tracks>>

\* Mutant of SetFirst: the attribute is left as it was.
SetFirstSkipped(elems, v) == elems

\* element.set("Value", v) on the first element of a findall result.
SetFirst(elems, v) == <<v>> \o Tail(elems)

\* Mutant of SetAudioOutput: the Target is written before the
\* LowerDisplayString node is looked up.
SetAudioOutputTargetFirst(output_number, element_string) ==
    /\ CanCall
    /\ calls' = calls + 1
    /\ LET gate == AboveVersion(<<8, 2, 0>>)
           arg == <<output_number, element_string>>
           fail(exc, log) ==
               root' = root /\ last' = Raised("set_audio_output", arg, exc, log)
       IN IF gate # "pass"
          THEN root' = root
               /\ last' = Refused("set_audio_output", arg, gate, GateLog(gate))
          ELSE IF output_number \notin DOMAIN STEREO_OUTPUTS
          THEN fail("ValueError", "Output number invalid!")
          ELSE IF root = NoneValue THEN fail("AttributeError", "")
          ELSE LET output_obj == STEREO_OUTPUTS[output_number]
                   routing == root.AudioOutputRouting[element_string]
                   chain == IF routing.DeviceChain.Target = <<>>
                            THEN "MasterChain" ELSE "DeviceChain"
               IN IF routing[chain].Target = <<>>
                  THEN fail("ElementNotFound", "Target")
                  ELSE IF routing[chain].LowerDisplayString = <<>>
                  THEN /\ root' =
                            [root EXCEPT
                               !.AudioOutputRouting[element_string][chain].Target =
                                   SetFirst(@, output_obj.target)]
                       /\ last' = Raised("set_audio_output", arg, "ElementNotFound",
                                         "LowerDisplayString")
                  ELSE /\ root' =
                            [root EXCEPT
                               !.AudioOutputRouting[element_string][chain] =
                                   Routing(
                                       SetFirst(@.Target, output_obj.target),
                                       SetFirst(@.LowerDisplayString,
                                                output_obj.lower_display_string))]
                       /\ last' = Returned("set_audio_output", arg, "None", chain)
    /\ UNCHANGED <<file, version, version_tuple, tracks, bpm>>

\* AbletonSet.set_audio_output, under @above_version((8, 2, 0)).
SetAudioOutput(output_number, element_string) ==
    /\ CanCall
    /\ calls' = calls + 1
    /\ LET gate == AboveVersion(<<8, 2, 0>>)
           arg == <<output_number, element_string>>
           fail(exc, log) ==
               root' = root /\ last' = Raised("set_audio_output", arg, exc, log)
       IN IF gate # "pass"
          THEN root' = root
               /\ last' = Refused("set_audio_output", arg, gate, GateLog(gate))
          ELSE IF output_number \notin DOMAIN STEREO_OUTPUTS
          THEN fail("ValueError", "Output number invalid!")
          ELSE IF root = NoneValue THEN fail("AttributeError", "")
          ELSE LET output_obj == STEREO_OUTPUTS[output_number]
                   routing == root.AudioOutputRouting[element_string]
                   chain == IF routing.DeviceChain.Target = <<>>
                            THEN "MasterChain" ELSE "DeviceChain"
               IN IF routing[chain].Target = <<>>
                  THEN fail("ElementNotFound", "Target")
                  ELSE IF routing[chain].LowerDisplayString = <<>>
                  THEN fail("ElementNotFound", "LowerDisplayString")
                  ELSE /\ root' =
                            [root EXCEPT
                               !.AudioOutputRouting[element_string][chain] =
                                   Routing(
                                       SetFirst(@.Target, output_obj.target),
                                       SetFirst(@.LowerDisplayString,
                                                output_obj.lower_display_string))]
                       /\ last' = Returned("set_audio_output", arg, "None", chain)
    /\ UNCHANGED <<file, version, version_tuple, tracks, bpm>>

\* height = min(425, (max(17, height)))
\* Mutant of ClampHeight: the lower limit is not applied.
ClampHeightNoFloor(height) == MinOf(425, height)

ClampHeight(height) == MinOf(425, MaxOf(17, height))

\* width = min(264, (max(17, width)))
ClampWidth(width) == MinOf(264, MaxOf(17, width))

\* AbletonSet.set_track_heights, under @set_loaded.
SetTrackHeights(height) ==
    /\ CanCall
    /\ calls' = calls + 1
    /\ IF root = NoneValue
       THEN /\ root' = root
            /\ last' = Refused("set_track_heights", height, "SetError",
                              "Set is not loaded!")
       ELSE /\ root' = [root EXCEPT !.LaneHeight =
                           [i \in DOMAIN @ |-> IntToStr(ClampHeight(height))]]
            /\ last' = Returned("set_track_heights", height, "None", "info")
    /\ UNCHANGED <<file, version, version_tuple, tracks, bpm>>

\* AbletonSet.set_track_widths, under @set_loaded.
SetTrackWidths(width) ==
    /\ CanCall
    /\ calls' = calls + 1
    /\ IF root = NoneValue
       THEN /\ root' = root
            /\ last' = Refused("set_track_widths", width, "SetError",
                              "Set is not loaded!")
       ELSE /\ root' = [root EXCEPT !.ViewStateSesstionTrackWidth =
                           [i \in DOMAIN @ |-> IntToStr(ClampWidth(width))]]
            /\ last' = Returned("set_track_widths", width, "None", "info")
    /\ UNCHANGED <<file, version, version_tuple, tracks, bpm>>

\* AbletonSet.fold_tracks and AbletonSet.unfold_tracks, under @set_loaded.
SetTrackUnfolded(op, value) ==
    /\ CanCall
    /\ calls' = calls + 1
    /\ IF root = NoneValue
       THEN /\ root' = root
            /\ last' = Refused(op, "", "SetError", "Set is not loaded!")
       ELSE /\ root' = [root EXCEPT !.TrackUnfolded = [i \in DOMAIN @ |-> value]]
            /\ last' = Returned(op, "", "None", "info")
    /\ UNCHANGED <<file, version, version_tuple, tracks, bpm>>

FoldTracks == SetTrackUnfolded("fold_tracks", "false")

UnfoldTracks == SetTrackUnfolded("unfold_tracks", "true")

\* AbletonSet.generate_xml: the header, the serialized tree and the footer.
GenerateXml ==
    /\ CanCall
    /\ calls' = calls + 1
    /\ last' = IF root = NoneValue
               THEN Raised("generate_xml", "", "SetError", "Set is not loaded!")
               ELSE Returned("generate_xml", "", "bytes", "")
    /\ UNCHANGED <<file, root, version, version_tuple, tracks, bpm>>

\* The arguments the calls are made with.
OutputNumbers == {0, 1, 2, 10, 11}

ElementStrings == {"MasterTrack", "PreHearTrack"}

Heights == {0 - 3, 5, 16, 17, 68, 425, 426, 1000}

Widths == {0 - 3, 5, 16, 17, 93, 264, 265, 1000}

(***************************************************************************)
(* The binary path codec (utils.parse_hex_path, decode_encode.string_to_hex*)
(* and the two decoders).  Hex text is a str (characters); a path str is  *)
(* given by its code points.                                              *)
(***************************************************************************)
HexUpper == Chars("0123456789ABCDEF")

HexLower == Chars("0123456789abcdef")

IsHexChar(c) == \E i \in 1..16 : HexUpper[i] = c \/ HexLower[i] = c

HexCharValue(c) == (CHOOSE i \in 1..16 : HexUpper[i] = c \/ HexLower[i] = c) - 1

\* str.upper() on one character of hex text.
UpperChar(c) ==
    IF \E i \in 11..16 : HexLower[i] = c
    THEN HexUpper[CHOOSE i \in 11..16 : HexLower[i] = c]
    ELSE c

\* f"{x:x}": lower-case hex digits of x with no padding.
RECURSIVE FormatHex(_)
FormatHex(x) ==
    IF x < 16 THEN <<HexLower[x + 1]>>
    ELSE FormatHex(x \div 16) \o <<HexLower[(x % 16) + 1]>>

\* str.encode("utf-8") of one code point (not a surrogate).
Utf8EncodePoint(cp) ==
    IF cp < 128 THEN <<cp>>
    ELSE IF cp < 2048 THEN <<192 + (cp \div 64), 128 + (cp % 64)>>
    ELSE IF cp < 65536
    THEN <<224 + (cp \div 4096), 128 + ((cp \div 64) % 64), 128 + (cp % 64)>>
    ELSE <<240 + (cp \div 262144), 128 + ((cp \div 4096) % 64),
           128 + ((cp \div 64) % 64), 128 + (cp % 64)>>

\* "".join(pieces[lo..hi])
RECURSIVE Flatten(_, _, _)
Flatten(pieces, lo, hi) ==
    IF lo > hi THEN <<>>
    ELSE IF lo = hi THEN pieces[lo]
    ELSE Flatten(pieces, lo, (lo + hi) \div 2) \o Flatten(pieces, ((lo + hi) \div 2) + 1, hi)

Utf8Encode(str) ==
    LET pieces == [i \in DOMAIN str |-> Utf8EncodePoint(str[i])]
    IN Flatten(pieces, 1, Len(pieces))

\* "".join([f"{x:x}00" for x in byte_str])
JoinHex00(byte_str) ==
    LET pieces == [i \in DOMAIN byte_str |-> FormatHex(byte_str[i]) \o Chars("00")]
    IN Flatten(pieces, 1, Len(pieces))

\* decode_encode.string_to_hex
string_to_hex(in_str) ==
    LET joined == JoinHex00(Utf8Encode(in_str))
        prepped == [i \in 1..Len(joined) |-> UpperChar(joined[i])]
    IN prepped \o Chars("0000")

\* text.replace(c, "")
Remove(text, drop) == SelectSeq(text, LAMBDA c : c \notin drop)

\* bytearray.fromhex: pairs of hex digits, ASCII whitespace skipped between
\* pairs; anything else raises ValueError.
FromHex(s) ==
    LET digits == SelectSeq(s, LAMBDA c : ~IsSpace(c))
        \* a whitespace character behind the first digit of a pair
        split == \E i \in DOMAIN s :
                     /\ IsSpace(s[i])
                     /\ Cardinality({ j \in 1..(i - 1) : ~IsSpace(s[j]) }) % 2 = 1
    IN IF split \/ Len(digits) % 2 = 1 \/ \E i \in DOMAIN digits : ~IsHexChar(digits[i])
       THEN [ok |-> FALSE, bytes |-> <<>>]
       ELSE [ok |-> TRUE,
             bytes |-> [k \in 1..(Len(digits) \div 2) |->
                           16 * HexCharValue(digits[2 * k - 1]) + HexCharValue(digits[2 * k])]]

\* bytes.decode("utf-16"): a byte order mark selects the order and is
\* dropped, otherwise the native (little-endian) order is used; an odd
\* length or an unpaired surrogate raises UnicodeDecodeError.
Unit16(b, i, big) == IF big THEN 256 * b[i] + b[i + 1] ELSE b[i] + 256 * b[i + 1]

IsHighSurrogate(u) == u >= 55296 /\ u <= 56319

IsLowSurrogate(u) == u >= 56320 /\ u <= 57343

\* The 16-bit units of b behind its first `skip` bytes, decoded: a high
\* surrogate must be followed by a low one and the two make one character,
\* a low surrogate must follow a high one, and no byte may be left over.
Utf16Units(b, skip, big) ==
    LET n == (Len(b) - skip) \div 2
        unit == [k \in 1..n |-> Unit16(b, skip + 2 * k - 1, big)]
        paired == \A k \in 1..n :
                      /\ IsHighSurrogate(unit[k]) => (k < n /\ IsLowSurrogate(unit[k + 1]))
                      /\ IsLowSurrogate(unit[k]) => (k > 1 /\ IsHighSurrogate(unit[k - 1]))
        starts == SelectSeq([k \in 1..n |-> k], LAMBDA k : ~IsLowSurrogate(unit[k]))
    IN IF (Len(b) - skip) % 2 = 1 \/ ~paired THEN [ok |-> FALSE, str |-> <<>>]
       ELSE [ok |-> TRUE,
             str |-> [j \in DOMAIN starts |->
                         IF IsHighSurrogate(unit[starts[j]])
                         THEN 65536 + 1024 * (unit[starts[j]] - 55296)
                                    + (unit[starts[j] + 1] - 56320)
                         ELSE unit[starts[j]]]]

Utf16Decode(b) ==
    IF Len(b) >= 2 /\ b[1] = 255 /\ b[2] = 254 THEN Utf16Units(b, 2, FALSE)
    ELSE IF Len(b) >= 2 /\ b[1] = 254 /\ b[2] = 255 THEN Utf16Units(b, 2, TRUE)
    ELSE Utf16Units(b, 0, FALSE)

\* bytes.decode() (utf-8, strict).
IsCont(b, i) == i <= Len(b) /\ b[i] >= 128 /\ b[i] <= 191

InRange(b, i, lo, hi) == i <= Len(b) /\ b[i] >= lo /\ b[i] <= hi

RECURSIVE Utf8Units(_, _, _)
Utf8Units(b, i, acc) ==
    IF i > Len(b) THEN [ok |-> TRUE, str |-> acc]
    ELSE LET c == b[i]
             bad == [ok |-> FALSE, str |-> <<>>]
         IN IF c < 128 THEN Utf8Units(b, i + 1, Append(acc, c))
            ELSE IF c >= 194 /\ c <= 223
            THEN IF IsCont(b, i + 1)
                 THEN Utf8Units(b, i + 2, Append(acc, 64 * (c - 192) + (b[i + 1] - 128)))
                 ELSE bad
            ELSE IF c >= 224 /\ c <= 239
            THEN IF /\ InRange(b, i + 1, IF c = 224 THEN 160 ELSE 128,
                                          IF c = 237 THEN 159 ELSE 191)
                    /\ IsCont(b, i + 2)
                 THEN Utf8Units(b, i + 3,
                          Append(acc, 4096 * (c - 224) + 64 * (b[i + 1] - 128)
                                      + (b[i + 2] - 128)))
                 ELSE bad
            ELSE IF c >= 240 /\ c <= 244
            THEN IF /\ InRange(b, i + 1, IF c = 240 THEN 144 ELSE 128,
                                          IF c = 244 THEN 143 ELSE 191)
                    /\ IsCont(b, i + 2) /\ IsCont(b, i + 3)
                 THEN Utf8Units(b, i + 4,
                          Append(acc, 262144 * (c - 240) + 4096 * (b[i + 1] - 128)
                                      + 64 * (b[i + 2] - 128) + (b[i + 3] - 128)))
                 ELSE bad
            ELSE bad

Utf8Decode(b) == Utf8Units(b, 1, <<>>)

\* utils.parse_windows_data
parse_windows_data(byte_data) ==
    LET d == Utf16Decode(byte_data)
    IN IF d.ok THEN StrValue(Remove(d.str, {0})) ELSE NoneValue

\* The scan loop of utils.parse_mac_data; i is the 0-based index of the code,
\* byte_data[i] there is byte_data[i + 1] here.
RECURSIVE MacScan(_, _, _)
MacScan(byte_data, i, itm_lst) ==
    LET last_possible_index == Len(byte_data) - 1
    IN IF ~(i <= last_possible_index) THEN itm_lst
       ELSE IF byte_data[i + 1] = 0 \/ byte_data[i + 1] = 255
       THEN MacScan(byte_data, i + 1, itm_lst)
       ELSE LET potential_length == byte_data[i + 1]
                potential_end == i + potential_length + 1
            IN IF /\ potential_end < last_possible_index
                  /\ \A k \in (i + 1)..(potential_end - 1) : byte_data[k + 1] # 0
                  /\ byte_data[potential_end + 1] = 0
               THEN MacScan(byte_data, potential_end + 1,
                            Append(itm_lst, SubSeq(byte_data, i + 2, potential_end)))
               ELSE MacScan(byte_data, i + 1, itm_lst)

\* Mutant of parse_mac_data: the first two segments are taken, not the last two.
parse_mac_data_first_two(byte_data) ==
    LET itm_lst == MacScan(byte_data, 6, <<>>)
        n == Len(itm_lst)
    IN IF n < 2 THEN NoneValue
       ELSE LET a == Utf8Decode(itm_lst[2])
                b == Utf8Decode(itm_lst[1])
            IN IF a.ok /\ b.ok THEN StrValue(a.str \o b.str) ELSE NoneValue

\* utils.parse_mac_data
parse_mac_data(byte_data) ==
    LET itm_lst == MacScan(byte_data, 6, <<>>)
        n == Len(itm_lst)
    IN IF n < 2 THEN NoneValue
       ELSE LET a == Utf8Decode(itm_lst[n])
                b == Utf8Decode(itm_lst[n - 1])
            IN IF a.ok /\ b.ok THEN StrValue(a.str \o b.str) ELSE NoneValue

\* if byte_data[0:3] == b"\x00" * 3
\* Mutant of MacHeader: only the first two bytes are looked at.
MacHeaderTwoBytes(byte_data) ==
    SubSeq(byte_data, 1, MinOf(2, Len(byte_data))) = <<0, 0>>

MacHeader(byte_data) ==
    SubSeq(byte_data, 1, MinOf(3, Len(byte_data))) = <<0, 0, 0>>

\* utils.parse_hex_path and AbletonSet._parse_hex_path (which also records
\* the guessed operating system): the decoder called ("" when none is) and
\* the value returned or the exception raised.
parse_hex_path(text) ==
    IF text = NoneValue \/ text.val = <<>>
    THEN [dispatch |-> "", os |-> "UNSET", result |-> NoneValue]
    ELSE LET abs_hash_path == Remove(text.val, {"\t", "\n"})
             byte_data == FromHex(abs_hash_path)
         IN IF ~byte_data.ok
            THEN [dispatch |-> "", os |-> "UNSET", result |-> [kind |-> "ValueError"]]
            ELSE IF MacHeader(byte_data.bytes)
            THEN [dispatch |-> "mac", os |-> "MAC_OS",
                  result |-> parse_mac_data(byte_data.bytes)]
            ELSE [dispatch |-> "windows", os |-> "WINDOWS_OS",
                  result |-> parse_windows_data(byte_data.bytes)]

(***************************************************************************)
(* The inputs of the codec: path strings (for string_to_hex) and Data     *)
(* texts (for parse_hex_path), the latter written from byte sequences in  *)
(* one of the layouts a document or a caller may use.                     *)
(***************************************************************************)
\* The length of the path strings and of the free byte sequences.
MaxPathLen == 2

MaxRawLen == 3

\* NUL, tab, 0x0F, 0x10, "/", "A", DEL
PathCodePoints == {0, 9, 15, 16, 47, 65, 127}

\* 0x00, a length byte, "A", a high surrogate half, 0xFE, 0xFF
ByteAlphabet == {0, 1, 65, 216, 254, 255}

SeqsUpTo(S, n) == UNION { [1..k -> S] : k \in 0..n }

PathStrings == SeqsUpTo(PathCodePoints, MaxPathLen)

\* length byte, payload, NUL; or a candidate the scan must reject
MacSegments ==
    { <<1, 65, 0>>, <<2, 47, 66, 0>>, <<1, 200, 0>>, <<2, 65, 0>>, <<1, 65, 255>> }

MacBlobs ==
    { <<0, 0, 0, 0, 0, n>> \o s1 \o pad \o s2 \o tail :
        n \in {0, 13}, s1 \in MacSegments, s2 \in MacSegments,
        pad \in {<<>>, <<255>>}, tail \in {<<>>, <<0>>, <<0, 0>>} }

\* Three segments after the header, the last one ending the data or followed
\* by one more NUL.
MacTriples ==
    { <<0, 0, 0, 0, 0, 0>> \o s1 \o s2 \o s3 \o tail :
        s1 \in {<<1, 65, 0>>, <<2, 47, 66, 0>>, <<1, 200, 0>>},
        s2 \in {<<1, 65, 0>>, <<2, 47, 66, 0>>, <<1, 200, 0>>},
        s3 \in {<<1, 65, 0>>, <<2, 47, 66, 0>>, <<1, 200, 0>>},
        tail \in {<<>>, <<0>>} }

RawInputs == SeqsUpTo(ByteAlphabet, MaxRawLen) \cup MacBlobs \cup MacTriples

\* Two upper-case hex digits per byte, as the document stores them.
RECURSIVE HexOf(_, _)
HexOf(bytes, sep) ==
    IF bytes = <<>> THEN <<>>
    ELSE << HexUpper[(Head(bytes) \div 16) + 1], HexUpper[(Head(bytes) % 16) + 1] >>
         \o (IF Len(bytes) > 1 THEN sep ELSE <<>>) \o HexOf(Tail(bytes), sep)

Layouts == {"plain", "block", "spaced"}

DataText(bytes, layout) ==
    CASE layout = "plain" -> HexOf(bytes, <<>>)
      [] layout = "block" -> Chars("\n\t\t") \o HexOf(bytes, <<>>) \o Chars("\n\t")
      [] layout = "spaced" -> HexOf(bytes, <<" ">>)

NoCodecOut == [dispatch |-> "", os |-> "UNSET", result |-> NoneValue]

CodecIdle ==
    /\ path_str = NoneValue
    /\ raw_bytes = <<>>
    /\ hex_text = NoneValue
    /\ codec_out = NoCodecOut
    /\ set_os = "UNSET"
    /\ codec_pc = "idle"

CodecInit ==
    /\ codec_out = NoCodecOut
    /\ set_os = "UNSET"
    /\ \/ /\ path_str \in { StrValue(p) : p \in PathStrings }
          /\ raw_bytes = <<>>
          /\ hex_text = NoneValue
          /\ codec_pc = "encode"
       \/ /\ path_str = NoneValue
          /\ raw_bytes \in RawInputs
          /\ hex_text \in { StrValue(DataText(raw_bytes, l)) : l \in Layouts }
          /\ codec_pc = "decode"

\* hex_string = decode_encode.string_to_hex(str(path))
StringToHex ==
    /\ codec_pc = "encode"
    /\ hex_text' = StrValue(string_to_hex(path_str.val))
    /\ codec_pc' = "decode"
    /\ UNCHANGED <<path_str, raw_bytes, codec_out, set_os>>

\* utils.parse_hex_path(text)
ParseHexPath ==
    /\ codec_pc = "decode"
    /\ codec_out' = parse_hex_path(hex_text)
    /\ codec_pc' = "done"
    /\ UNCHANGED <<path_str, raw_bytes, hex_text, set_os>>

\* AbletonSet._parse_hex_path(text), which assigns self.set_os on dispatch
SetParseHexPath ==
    /\ codec_pc = "decode"
    /\ codec_out' = parse_hex_path(hex_text)
    /\ set_os' = IF codec_out'.dispatch = "" THEN set_os ELSE codec_out'.os
    /\ codec_pc' = "done"
    /\ UNCHANGED <<path_str, raw_bytes, hex_text>>

(***************************************************************************)
(* decode_encode.py: the text of a Data node (a tab-indented block of hex  *)
(* lines) to a hex string and back.                                        *)
(***************************************************************************)
\* str.splitlines() of a text whose only line boundary is "\n": the k-th
\* line runs from behind the (k-1)-th "\n" to before the k-th one (or to the
\* end of the text); no empty last line is produced after a final "\n".
SplitLines(s) ==
    LET breaks == { i \in DOMAIN s : s[i] = "\n" }
        nth(k) == CHOOSE i \in breaks : Cardinality({ j \in breaks : j < i }) = k - 1
        line_start(k) == IF k = 1 THEN 1 ELSE nth(k - 1) + 1
        line_end(k) == IF k <= Cardinality(breaks) THEN nth(k) - 1 ELSE Len(s)
        count == IF s = <<>> THEN 0
                 ELSE IF s[Len(s)] = "\n" THEN Cardinality(breaks)
                 ELSE Cardinality(breaks) + 1
    IN [k \in 1..count |-> SubSeq(s, line_start(k), line_end(k))]

\* str.count(c)
Count(s, c) == Cardinality({ i \in DOMAIN s : s[i] = c })

\* c * n for a one-character str c (the empty str when n <= 0)
Repeat(c, n) == [i \in 1..n |-> c]

\* sep.join(lines)
RECURSIVE Join(_, _)
Join(lines, sep) ==
    IF lines = <<>> THEN <<>>
    ELSE IF Len(lines) = 1 THEN Head(lines)
    ELSE Head(lines) \o sep \o Join(Tail(lines), sep)

\* decode_encode.xml_to_string: DecodeError is not defined in the module, so
\* the raise on an empty text is a NameError; a text of one line has no
\* second line to count the tabs of.
xml_to_string(xml_str) ==
    IF xml_str = <<>> THEN [exc |-> "NameError"]
    ELSE LET lines == SplitLines(xml_str)
         IN IF Len(lines) < 2 THEN [exc |-> "IndexError"]
            ELSE [exc |-> "",
                  hex |-> Remove(Remove(Remove(xml_str, {"\t"}), {" "}), {"\n"}),
                  levels |-> Count(lines[2], "\t")]

\* The 80 of "width = 80 + levels".
WrapWidth == 80

\* A wrap that loses the character at which it breaks a long word.
RECURSIVE WrapWordLossy(_, _, _)
WrapWordLossy(word, indent, space) ==
    IF word = <<>> THEN <<>>
    ELSE IF Len(word) <= space THEN << indent \o word >>
    ELSE << indent \o SubSeq(word, 1, space) >>
         \o WrapWordLossy(SubSeq(word, space + 2, Len(word)), indent, space)

\* textwrap.wrap(in_str, initial_indent=indent, subsequent_indent=indent,
\* break_long_words=True, width=width) for a text that is one word (no
\* whitespace, no hyphen), which is what xml_to_string and string_to_hex
\* return: every line is the indent followed by the next `space`
\* = width - len(indent) characters of the word; no line for an empty text.
RECURSIVE WrapWord(_, _, _)
WrapWord(word, indent, space) ==
    IF word = <<>> THEN <<>>
    ELSE IF Len(word) <= space THEN << indent \o word >>
    ELSE << indent \o SubSeq(word, 1, space) >>
         \o WrapWord(SubSeq(word, space + 1, Len(word)), indent, space)

\* decode_encode.string_to_xml
string_to_xml(in_str, levels) ==
    LET indent == Repeat("\t", levels)
        width == WrapWidth + levels
        parsed == WrapWord(in_str, indent, width - Len(indent))
        ending_indent == Repeat("\t", levels - 1)
    IN <<"\n">> \o Join(parsed, <<"\n">>) \o <<"\n">> \o ending_indent

(***************************************************************************)
(* The Data texts given to the transcoder.  A block is written from a hex  *)
(* string the way a document holds it: an empty first line, lines of       *)
(* `per_line` hex digits behind `tabs` tabs, and the indentation of the    *)
(* closing tag.                                                            *)
(***************************************************************************)
\* The largest indentation of a block.
MaxLevels == 3

\* Hex strings of up to two full lines and one digit more.
HexLengths == {0, 1, 2, 79, 80, 81, 159, 160, 161}

\* First digits of the hex string; the i-th digit follows from them.
HexSeeds == {0, 7, 13}

HexDigits(seed, n) == [i \in 1..n |-> HexUpper[((seed + 3 * i) % 16) + 1]]

LineWidths == {80, 32, 7}

RECURSIVE ChunksOf(_, _)
ChunksOf(word, per_line) ==
    IF Len(word) <= per_line THEN << word >>
    ELSE << SubSeq(word, 1, per_line) >>
         \o ChunksOf(SubSeq(word, per_line + 1, Len(word)), per_line)

BlockText(hex, tabs, per_line) ==
    LET lines == [i \in DOMAIN ChunksOf(hex, per_line) |->
                     Repeat("\t", tabs) \o ChunksOf(hex, per_line)[i]]
    IN <<"\n">> \o Join(lines, <<"\n">>) \o <<"\n">> \o Repeat("\t", tabs - 1)

\* bytes separated by a space, as a hex dump writes them
RECURSIVE SpacedPairs(_)
SpacedPairs(word) ==
    IF Len(word) <= 2 THEN word
    ELSE SubSeq(word, 1, 2) \o <<" ">> \o SpacedPairs(SubSeq(word, 3, Len(word)))

Blocks ==
    { BlockText(HexDigits(s, n), t, w) :
        s \in HexSeeds, n \in HexLengths, t \in 0..MaxLevels, w \in LineWidths }
    \cup { BlockText(SpacedPairs(HexDigits(s, n)), t, 240) :
        s \in HexSeeds, n \in {2, 80, 82}, t \in 0..MaxLevels }

\* texts that are no blocks: an empty text, one line
OtherTexts == { <<>>, Chars("4100"), Chars("\t4100") }

XmlTexts == Blocks \cup OtherTexts

NoXml == [exc |-> "unset"]

XmlIdle ==
    /\ xml_text = <<>>
    /\ xml_first = NoXml
    /\ xml_out = <<>>
    /\ xml_back = NoXml
    /\ xml_pc = "idle"

XmlInit ==
    /\ xml_text \in XmlTexts
    /\ xml_first = NoXml
    /\ xml_out = <<>>
    /\ xml_back = NoXml
    /\ xml_pc = "read"

\* hex, levels = xml_to_string(text)
XmlToString ==
    /\ xml_pc = "read"
    /\ xml_first' = xml_to_string(xml_text)
    /\ xml_pc' = IF xml_first'.exc = "" THEN "write" ELSE "raised"
    /\ UNCHANGED <<xml_text, xml_out, xml_back>>

\* formatted_xml = string_to_xml(hex, levels)
StringToXml ==
    /\ xml_pc = "write"
    /\ xml_out' = string_to_xml(xml_first.hex, xml_first.levels)
    /\ xml_pc' = "reread"
    /\ UNCHANGED <<xml_text, xml_first, xml_back>>

\* xml_to_string(formatted_xml)
XmlToStringAgain ==
    /\ xml_pc = "reread"
    /\ xml_back' = xml_to_string(xml_out)
    /\ xml_pc' = "done"
    /\ UNCHANGED <<xml_text, xml_first, xml_out>>

(***************************************************************************)
(* Paths.  A path is a str; the operators below are those of               *)
(* pathlib.PurePosixPath on paths that are already normalised.             *)
(***************************************************************************)
\* The position of the last "/" of p, 0 when it has none.
LastSlash(p) ==
    LET c == Chars(p)
    IN IF \E i \in DOMAIN c : c[i] = "/"
       THEN CHOOSE i \in DOMAIN c : c[i] = "/" /\ \A j \in (i + 1)..Len(c) : c[j] # "/"
       ELSE 0

\* pathlib.Path(p).name
PathName(p) == IF LastSlash(p) = Len(p) THEN "" ELSE SubSeq(p, LastSlash(p) + 1, Len(p))

\* str(pathlib.Path(p).parent)
PathParent(p) ==
    LET k == LastSlash(p)
    IN IF k = 0 THEN "." ELSE IF k = 1 THEN "/" ELSE SubSeq(p, 1, k - 1)

\* str(pathlib.Path(a) / b)
PathJoin(a, b) ==
    IF b = "" \/ b = "." THEN a
    ELSE IF SubSeq(b, 1, 1) = "/" THEN b
    ELSE IF a = "/" THEN "/" \o b
    ELSE IF a = "." \/ a = "" THEN b
    ELSE a \o "/" \o b

\* path.split("/")
SplitSlash(s) ==
    LET c == Chars(s)
        breaks == { i \in DOMAIN c : c[i] = "/" }
        nth(k) == CHOOSE i \in breaks : Cardinality({ j \in breaks : j < i }) = k - 1
        piece_start(k) == IF k = 1 THEN 1 ELSE nth(k - 1) + 1
        piece_end(k) == IF k <= Cardinality(breaks) THEN nth(k) - 1 ELSE Len(s)
    IN [k \in 1..(Cardinality(breaks) + 1) |->
           IF piece_start(k) > piece_end(k) THEN "" ELSE SubSeq(s, piece_start(k), piece_end(k))]

\* "/".join(parts)
RECURSIVE JoinSlash(_)
JoinSlash(parts) ==
    IF parts = <<>> THEN ""
    ELSE IF Len(parts) = 1 THEN Head(parts)
    ELSE Head(parts) \o "/" \o JoinSlash(Tail(parts))

\* The directory p and the directories above it, as mkdir(parents=True)
\* creates them.
WithParents(p) ==
    LET c == Chars(p)
    IN { p } \cup { SubSeq(p, 1, i - 1) : i \in { j \in DOMAIN c : j > 1 /\ c[j] = "/" } }

\* The characters of the paths and their code points (ord and chr).
AsciiRuns == {
    [first |-> 32, chars |-> " "],
    [first |-> 45, chars |-> "-./0123456789:"],
    [first |-> 65, chars |-> "ABCDEFGHIJKLMNOPQRSTUVWXYZ"],
    [first |-> 95, chars |-> "_"],
    [first |-> 97, chars |-> "abcdefghijklmnopqrstuvwxyz"] }

Ord(c) ==
    LET run == CHOOSE r \in AsciiRuns : \E i \in 1..Len(r.chars) : SubSeq(r.chars, i, i) = c
    IN run.first + (CHOOSE i \in 1..Len(run.chars) : SubSeq(run.chars, i, i) = c) - 1

Chr(n) ==
    IF \E r \in AsciiRuns : n \in r.first..(r.first + Len(r.chars) - 1)
    THEN LET run == CHOOSE r \in AsciiRuns : n \in r.first..(r.first + Len(r.chars) - 1)
         IN SubSeq(run.chars, n - run.first + 1, n - run.first + 1)
    ELSE "?"

\* a str as the sequence of its code points, and back
CodePoints(s) == [i \in 1..Len(s) |-> Ord(SubSeq(s, i, i))]

RECURSIVE FromCodePointsIn(_, _, _)
FromCodePointsIn(cps, lo, hi) ==
    IF lo > hi THEN ""
    ELSE IF lo = hi THEN Chr(cps[lo])
    ELSE FromCodePointsIn(cps, lo, (lo + hi) \div 2)
         \o FromCodePointsIn(cps, ((lo + hi) \div 2) + 1, hi)

FromCodePoints(cps) == FromCodePointsIn(cps, 1, Len(cps))

\* A value that is a str or None: pathlib.Path(x) if x else None.
PathOrNone(x) == IF x = "" THEN NoneValue ELSE StrValue(x)

(***************************************************************************)
(* utils.SampleRef.  A SampleRef node of the tree is a record of the       *)
(* values the code reads and writes:                                       *)
(*   schema 11+ : LastModDate, OriginalFileSize, RelativePathType,         *)
(*                RelativePath (Value), Path (Value);                      *)
(*   schema < 11: LastModDate, FileSize, RelativePathType,                 *)
(*                HasRelativePath, RelativePathElement (the Dir of each    *)
(*                child of RelativePath), Name, Data (the text),           *)
(*                OriginalData (the text of                                *)
(*                SourceContext...OriginalFileRef.FileRef.Data, or None).  *)
(* A parsed SampleRef keeps the position of its node in `element`.         *)
(***************************************************************************)
IsModern(schema_version) == ~TupleLess(schema_version, <<11, 0, 0>>)

\* utils.get_sample_size
get_sample_size(file_ref) ==
    IF "OriginalFileSize" \in DOMAIN file_ref THEN file_ref.OriginalFileSize
    ELSE IF "FileSize" \in DOMAIN file_ref THEN file_ref.FileSize
    ELSE 0

\* utils.check_relative_path: the first value of the pair it returns.
check_relative_path(name, sample_element, project_root_folder) ==
    IF project_root_folder = NoneValue THEN ""
    ELSE IF sample_element.HasRelativePath = "true" /\ sample_element.RelativePathType = 3
    THEN PathJoin(PathJoin(project_root_folder.val,
                           JoinSlash(sample_element.RelativePathElement)), name)
    ELSE ""

\* The SampleRef object from_element returns.
MadeRef(sample_ref, element, schema_version, project_root_folder, name, absolute, relative) ==
    [exc |-> "",
     ref |-> [name |-> name,
              size |-> get_sample_size(sample_ref),
              last_modified |-> sample_ref.LastModDate,
              absolute |-> PathOrNone(absolute),
              relative |-> PathOrNone(relative),
              project_root |-> project_root_folder,
              version_tuple |-> schema_version,
              element |-> element]]

\* SampleRef.from_element for the schema before 11, given what
\* parse_hex_path made of the Data text.
FromDecoded(sample_ref, element, schema_version, project_root_folder, decoded) ==
    IF decoded.kind = "ValueError" THEN [exc |-> "ValueError"]
    ELSE MadeRef(sample_ref, element, schema_version, project_root_folder,
                 sample_ref.Name,
                 IF decoded = NoneValue THEN "" ELSE FromCodePoints(decoded.val),
                 check_relative_path(sample_ref.Name, sample_ref, project_root_folder))

\* SampleRef.from_element
from_element(sample_ref, element, schema_version, project_root_folder) ==
    IF IsModern(schema_version)
    THEN MadeRef(sample_ref, element, schema_version, project_root_folder,
                 PathName(sample_ref.Path), sample_ref.Path, sample_ref.RelativePath)
    ELSE FromDecoded(sample_ref, element, schema_version, project_root_folder,
                     parse_hex_path(StrValue(sample_ref.Data)).result)

\* SampleRef.set_absolute
set_absolute(node, schema_version, path) ==
    IF ~IsModern(schema_version)
    THEN LET first == xml_to_string(node.Data)
             hex_string == string_to_hex(CodePoints(path))
         IN IF first.exc # "" THEN [exc |-> first.exc, node |-> node]
            ELSE LET written == [node EXCEPT !.Data = string_to_xml(hex_string, first.levels)]
                 IN IF node.OriginalData = NoneValue THEN [exc |-> "", node |-> written]
                    ELSE LET second == xml_to_string(node.OriginalData.val)
                         IN IF second.exc # "" THEN [exc |-> second.exc, node |-> written]
                            ELSE [exc |-> "",
                                  node |-> [written EXCEPT !.OriginalData =
                                      StrValue(string_to_xml(hex_string, second.levels))]]
    ELSE [exc |-> "", node |-> [node EXCEPT !.Path = path]]

\* SampleRef.set_relative: for the old schema the children are removed and
\* one child per folder is appended with the tail of the old child at the
\* same position, which raises IndexError when there are more folders than
\* there were children (the children appended until then stay).
set_relative(node, schema_version, path) ==
    IF ~IsModern(schema_version)
    THEN LET tails == Len(node.RelativePathElement)
             parts == SplitSlash(path)
             folders == SubSeq(parts, 1, Len(parts) - 1)
         IN IF Len(folders) > tails
            THEN [exc |-> "IndexError",
                  node |-> [node EXCEPT !.RelativePathElement = SubSeq(folders, 1, tails)]]
            ELSE [exc |-> "", node |-> [node EXCEPT !.RelativePathElement = folders]]
    ELSE [exc |-> "", node |-> [node EXCEPT !.RelativePath = path]]

\* str(SampleRef.get_relative_value())
get_relative_value(node, schema_version) ==
    IF ~IsModern(schema_version)
    THEN IF node.RelativePathElement = <<>> THEN "."
         ELSE JoinSlash(node.RelativePathElement)
    ELSE PathParent(node.RelativePath)

\* SampleRef.set_relative_type
set_relative_type(node, schema_version, type_int) ==
    LET flagged ==
            IF ~IsModern(schema_version) /\ "HasRelativePath" \in DOMAIN node
            THEN IF type_int = 3 THEN [node EXCEPT !.HasRelativePath = "true"]
                 ELSE IF type_int \in {0, 1} THEN [node EXCEPT !.HasRelativePath = "false"]
                 ELSE node
            ELSE node
    IN [flagged EXCEPT !.RelativePathType = type_int]

\* SampleRef.get_relative_type
get_relative_type(node) == node.RelativePathType

(***************************************************************************)
(* AbletonSet.fix_samples and AbletonSet._fix_sample.                      *)
(***************************************************************************)
\* An entry of the database is a path and {name, size, last_modified}; the
\* last_modified is the float st_mtime, held as whole seconds and tenths.
FloatValue(whole, tenths) == [whole |-> whole, tenths |-> tenths]

\* int(x) of a float that is not negative
PyInt(x) == x.whole

Exists(files, folders, p) == p \in DOMAIN files \/ p \in folders

\* SampleRef.absolute_exists
absolute_exists(parsed, files, folders) ==
    parsed.absolute # NoneValue /\ Exists(files, folders, parsed.absolute.val)

\* SampleRef.relative_exists, reached when absolute_exists is false:
\* "self.project_root / self.relative" is a TypeError when project_root is
\* None and relative is not.
relative_exists(parsed, files, folders) ==
    IF parsed.relative = NoneValue THEN [exc |-> "", value |-> FALSE]
    ELSE IF parsed.project_root = NoneValue THEN [exc |-> "TypeError", value |-> FALSE]
    ELSE [exc |-> "",
          value |-> Exists(files, folders,
                           PathJoin(parsed.project_root.val, parsed.relative.val))]

\* factory_packs
factory_packs == <<"/Resources/Builtin/Samples", "Ableton/Factory Packs">>

\* any([x in str(parsed.absolute.parent) for x in factory_packs])
IsFactoryContent(parsed) ==
    \E k \in DOMAIN factory_packs :
        Contains(Chars(PathParent(parsed.absolute.val)), Chars(factory_packs[k]))

\* size_match with no test that the reference has a size
size_match_unguarded(parsed, smp_info) == smp_info.size = parsed.size

\* size_match = parsed.size and smp_info.get("size") == parsed.size
size_match(parsed, smp_info) == parsed.size # 0 /\ smp_info.size = parsed.size

\* modified_match = parsed.last_modified and
\*                  parsed.last_modified == int(smp_info.get("last_modified"))
modified_match(parsed, smp_info) ==
    parsed.last_modified # 0 /\ parsed.last_modified = PyInt(smp_info.last_modified)

\* found_samples[smp_path] = smp_info, on a dict kept in insertion order
PutFound(found, smp_path, smp_info) ==
    IF \E k \in DOMAIN found : found[k].path = smp_path
    THEN [k \in DOMAIN found |->
             IF found[k].path = smp_path THEN [path |-> smp_path, info |-> smp_info]
             ELSE found[k]]
    ELSE Append(found, [path |-> smp_path, info |-> smp_info])

\* What _fix_sample returns.  w is what the call may change: found_samples,
\* the files (fs), the directories (dirs) and the node of the reference.
\* The result says what was returned (ret) or raised (exc), whether the
\* entry passed the match test (accepted), and what the call met and did in
\* the project folder.
Rejected(w) ==
    [ret |-> FALSE, exc |-> "", accepted |-> FALSE, w |-> w,
     target |-> "", target_existed |-> FALSE, target_size |-> 0, copied |-> FALSE]

\* _fix_sample, lines 747-755: the reference is pointed at the entry's path.
LinkAbsolute(parsed, matched, abs) ==
    IF abs.exc # "" THEN [matched EXCEPT !.exc = abs.exc, !.w.node = abs.node]
    ELSE [matched EXCEPT !.ret = TRUE,
                         !.w.node = set_relative_type(abs.node, parsed.version_tuple, 1)]

\* _fix_sample, lines 742-746: the reference is pointed at the copied sample.
LinkRelative(parsed, met, rel) ==
    IF rel.exc # "" THEN [met EXCEPT !.exc = rel.exc, !.w.node = rel.node]
    ELSE [met EXCEPT !.ret = TRUE,
                     !.w.node = set_relative_type(rel.node, parsed.version_tuple, 3)]

\* _fix_sample, lines 732-746: met is the call so far, with the target file
\* and whether it existed.
CopySample(parsed, smp_path, rel_path, met) ==
    IF met.target_existed /\ met.target_size # parsed.size THEN met
    ELSE IF ~met.target_existed /\ smp_path \notin DOMAIN met.w.fs
    THEN [met EXCEPT !.exc = "FileNotFoundError"]
    ELSE LinkRelative(parsed,
                      [met EXCEPT !.copied = ~met.target_existed,
                                  !.w.fs = IF met.target_existed THEN @
                                           ELSE (met.target :> @[smp_path]) @@ @],
                      set_relative(met.w.node, parsed.version_tuple,
                                   rel_path \o "/" \o PathName(met.target)))

\* _fix_sample, lines 729-731: the folder is made and the target looked at.
CollectInto(parsed, smp_info, smp_path, rel_path, folder, matched) ==
    CopySample(parsed, smp_path, rel_path,
               [matched EXCEPT
                    !.w.dirs = @ \cup WithParents(folder),
                    !.target = PathJoin(folder, smp_info.name),
                    !.target_existed =
                        Exists(matched.w.fs, matched.w.dirs \cup WithParents(folder),
                               PathJoin(folder, smp_info.name)),
                    !.target_size =
                        IF PathJoin(folder, smp_info.name) \in DOMAIN matched.w.fs
                        THEN matched.w.fs[PathJoin(folder, smp_info.name)] ELSE 0])

\* _fix_sample, lines 724-728: where the sample is collected.
CollectSample(parsed, smp_info, smp_path, project_root_folder, rel_path, matched) ==
    CollectInto(parsed, smp_info, smp_path, rel_path,
                PathJoin(project_root_folder.val, rel_path), matched)

\* AbletonSet._fix_sample
_fix_sample(collect, parsed, smp_info, smp_path, w, project_root_folder, forced) ==
    IF smp_info.name # parsed.name THEN Rejected(w)
    ELSE IF ~size_match(parsed, smp_info) /\ ~modified_match(parsed, smp_info)
    THEN Rejected(w)
    ELSE IF collect /\ project_root_folder # NoneValue
    THEN CollectSample(parsed, smp_info, smp_path, project_root_folder,
                       IF get_relative_type(w.node) = 3
                       THEN get_relative_value(w.node, parsed.version_tuple)
                       ELSE "Samples/Imported",
                       [Rejected(w) EXCEPT
                            !.accepted = TRUE,
                            !.w.found_samples = PutFound(@, smp_path, smp_info)])
    ELSE LinkAbsolute(parsed,
                      [Rejected(w) EXCEPT
                           !.accepted = TRUE,
                           !.w.found_samples = PutFound(@, smp_path, smp_info)],
                      set_absolute(w.node, parsed.version_tuple, smp_path))

\* What one call of _fix_sample met and did, for the log of the run.
TestOf(entry, w, via, r) ==
    [via |-> via, path |-> entry.path, info |-> entry.info,
     accepted |-> r.accepted, ret |-> r.ret, exc |-> r.exc,
     target |-> r.target, target_existed |-> r.target_existed,
     target_size |-> r.target_size, copied |-> r.copied,
     candidate_size |-> IF entry.path \in DOMAIN w.fs THEN w.fs[entry.path] ELSE 0,
     node_changed |-> r.w.node # w.node,
     fs_changed |-> r.w.fs # w.fs]

\* One of the two loops of fix_samples over entries ("cache": found_samples,
\* "db": the database): _fix_sample on each entry in turn until one returns
\* True or raises.  tests collects what each call met and did.
RECURSIVE TryEntries(_, _, _, _, _, _)
RECURSIVE TryNext(_, _, _, _, _, _)
TryNext(entries, k, parsed, tests, via, r) ==
    IF r.exc # "" \/ r.ret
    THEN [ret |-> r.ret, exc |-> r.exc, w |-> r.w, tests |-> tests]
    ELSE TryEntries(entries, k + 1, parsed, r.w, tests, via)

TryEntries(entries, k, parsed, w, tests, via) ==
    IF k > Len(entries) THEN [ret |-> FALSE, exc |-> "", w |-> w, tests |-> tests]
    ELSE TryNext(entries, k, parsed,
                 Append(tests,
                        TestOf(entries[k], w, via,
                               _fix_sample(collect_and_save, parsed, entries[k].info,
                                           entries[k].path, w,
                                           ableton_set.project_root_folder, force))),
                 via,
                 _fix_sample(collect_and_save, parsed, entries[k].info, entries[k].path,
                             w, ableton_set.project_root_folder, force))

\* What one pass of the loop of fix_samples leaves in the variables, and
\* what was done (log).
PassResult(exc, outcome, via, tests, list, nodes, found, files, folders, missing, fixed) ==
    [exc |-> exc, sample_list |-> list, SampleRef |-> nodes,
     found_samples |-> found, fs |-> files, dirs |-> folders,
     missing_samples |-> missing, fixed_samples |-> fixed,
     log |-> [outcome |-> outcome, via |-> via, tests |-> tests,
              db_calls |-> Cardinality({ t \in DOMAIN tests : tests[t].via = "db" })]]

\* A pass that calls _fix_sample on no entry.
PassSame(exc, outcome, list, missing) ==
    PassResult(exc, outcome, "", <<>>, list, ableton_set.SampleRef, found_samples,
               fs, dirs, missing, fixed_samples)

\* A pass that ends with the result r of one of the loops over entries.
PassDone(parsed, list, r, outcome, via, fixed) ==
    PassResult(r.exc, outcome, via, r.tests, list,
               [ableton_set.SampleRef EXCEPT ![parsed.element] = r.w.node],
               r.w.found_samples, r.w.fs, r.w.dirs, missing_samples + 1, fixed)

\* Mutant of ScanDatabase: a reference no entry fixed is counted as fixed.
ScanDatabaseCounted(parsed, list, scanned) ==
    IF scanned.exc # "" THEN PassDone(parsed, list, scanned, "raised", "db", fixed_samples)
    ELSE IF scanned.ret THEN PassDone(parsed, list, scanned, "fixed", "db", fixed_samples + 1)
    ELSE PassDone(parsed, list, scanned, "unfixed", "", fixed_samples + 1)

\* fix_samples, lines 679-688: the loop over the database, and the count.
ScanDatabase(parsed, list, scanned) ==
    IF scanned.exc # "" THEN PassDone(parsed, list, scanned, "raised", "db", fixed_samples)
    ELSE IF scanned.ret THEN PassDone(parsed, list, scanned, "fixed", "db", fixed_samples + 1)
    ELSE PassDone(parsed, list, scanned, "unfixed", "", fixed_samples)

\* fix_samples, lines 671-678: the loop over found_samples.
ScanFound(parsed, list, cached) ==
    IF cached.exc # "" THEN PassDone(parsed, list, cached, "raised", "cache", fixed_samples)
    ELSE IF cached.ret THEN PassDone(parsed, list, cached, "fixed", "cache", fixed_samples + 1)
    ELSE ScanDatabase(parsed, list, TryEntries(db, 1, parsed, cached.w, cached.tests, "db"))

\* fix_samples, lines 659-688, for the reference parsed; rel is what
\* relative_exists gives when it is reached.
HandleParsed(parsed, list, rel) ==
    IF absolute_exists(parsed, fs, dirs) THEN PassSame("", "resolved", list, missing_samples)
    ELSE IF rel.exc # "" THEN PassSame(rel.exc, "raised", list, missing_samples)
    ELSE IF rel.value THEN PassSame("", "resolved", list, missing_samples)
    ELSE IF parsed.absolute = NoneValue
    THEN PassSame("AttributeError", "raised", list, missing_samples + 1)
    ELSE IF IsFactoryContent(parsed)
    THEN PassSame("", "skipped", list, missing_samples + 1)
    ELSE ScanFound(parsed, list,
                   TryEntries(found_samples, 1, parsed,
                              [found_samples |-> found_samples, fs |-> fs, dirs |-> dirs,
                               node |-> ableton_set.SampleRef[parsed.element]],
                              <<>>, "cache"))

\* _iterate_samples, lines 631-641: the reference is parsed from the tree
\* and appended to sample_list, or taken from sample_list.
HandleMade(from_tree, made) ==
    IF made.exc # "" THEN PassSame(made.exc, "raised", ableton_set.sample_list, missing_samples)
    ELSE HandleParsed(made.ref,
                      IF from_tree THEN Append(ableton_set.sample_list, made.ref)
                      ELSE ableton_set.sample_list,
                      relative_exists(made.ref, fs, dirs))

\* The body of the loop of fix_samples for the reference at position i of
\* the iteration (lines 658-688), _iterate_samples included.
HandleReference(i) ==
    HandleMade(fix_pc = "iter_tree",
               IF fix_pc = "iter_tree"
               THEN from_element(ableton_set.SampleRef[i], i, ableton_set.version_tuple,
                                 ableton_set.project_root_folder)
               ELSE [exc |-> "", ref |-> ableton_set.sample_list[i]])

\* max_folder_search_depth
max_folder_search_depth == 10

\* The loop of find_project_root_folder over self.path.parents.
RECURSIVE FindRootFrom(_, _)
FindRootFrom(current_dir, i) ==
    IF i > max_folder_search_depth THEN NoneValue
    ELSE IF PathJoin(current_dir, "Ableton Project Info") \in DOMAIN fs
    THEN StrValue(current_dir)
    ELSE IF current_dir = "/" \/ current_dir = "." THEN NoneValue
    ELSE FindRootFrom(PathParent(current_dir), i + 1)

\* AbletonSet.find_project_root_folder
find_project_root_folder ==
    IF ableton_set.project_root_folder # NoneValue THEN ableton_set.project_root_folder
    ELSE FindRootFrom(PathParent(ableton_set.path), 0)

NoReport == [missing_samples |-> 0, fixed_samples |-> 0, couldnt_fix |-> 0, logged |-> FALSE]

\* fix_samples is called: lines 653-657, and the start of _iterate_samples,
\* which walks sample_list when it is not empty and the tree otherwise.
FixSamplesBegin ==
    /\ fix_pc = "call"
    /\ ableton_set' = [ableton_set EXCEPT !.project_root_folder = find_project_root_folder]
    /\ found_samples' = <<>>
    /\ missing_samples' = 0
    /\ fixed_samples' = 0
    /\ fix_i' = 1
    /\ fix_pc' = IF ableton_set.sample_list # <<>> THEN "iter_list" ELSE "iter_tree"
    /\ UNCHANGED <<db, collect_and_save, force, fs, dirs, fix_exc, fix_log, report>>

IterLength ==
    IF fix_pc = "iter_tree" THEN Len(ableton_set.SampleRef) ELSE Len(ableton_set.sample_list)

\* One pass of the loop of fix_samples, for the next reference.
FixSamplesStep ==
    /\ fix_pc \in {"iter_tree", "iter_list"}
    /\ fix_i <= IterLength
    /\ \E r \in { HandleReference(fix_i) } :
          /\ ableton_set' = [ableton_set EXCEPT !.sample_list = r.sample_list,
                                                !.SampleRef = r.SampleRef]
          /\ found_samples' = r.found_samples
          /\ missing_samples' = r.missing_samples
          /\ fixed_samples' = r.fixed_samples
          /\ fs' = r.fs
          /\ dirs' = r.dirs
          /\ fix_log' = Append(fix_log, r.log)
          /\ fix_exc' = r.exc
          /\ fix_pc' = IF r.exc = "" THEN fix_pc ELSE "raised"
    /\ fix_i' = fix_i + 1
    /\ UNCHANGED <<db, collect_and_save, force, report>>

\* The end of the loop: the log line with the three counts (lines 690-696).
FixSamplesReport ==
    /\ fix_pc \in {"iter_tree", "iter_list"}
    /\ fix_i > IterLength
    /\ report' = [missing_samples |-> missing_samples,
                  fixed_samples |-> fixed_samples,
                  couldnt_fix |-> missing_samples - fixed_samples,
                  logged |-> TRUE]
    /\ fix_pc' = "done"
    /\ UNCHANGED <<ableton_set, db, collect_and_save, force, found_samples,
                   missing_samples, fixed_samples, fs, dirs, fix_i, fix_exc, fix_log>>

(***************************************************************************)
(* The Documents, databases and disks fix_samples is run on.               *)
(***************************************************************************)
\* The number of SampleRef nodes of a Document.
MaxRefs == 2

\* The indentation of the Data text of a reference.
DataLevels == 3

SetPath == "/proj/song.als"

ProjectInfo == "/proj/Ableton Project Info"

\* where collect-and-save puts a sample named kick.wav by default
TargetPath == "/proj/Samples/Imported/kick.wav"

FixVersions == { <<10, 1, 30>>, <<11, 0, 0>> }

\* The bytes Live writes for a path: UTF-16-LE and a final NUL character.
RECURSIVE Utf16Bytes(_)
Utf16Bytes(cps) ==
    IF cps = <<>> THEN <<0, 0>> ELSE <<Head(cps), 0>> \o Utf16Bytes(Tail(cps))

DataBlock(path, levels) ==
    BlockText(HexOf(Utf16Bytes(CodePoints(path)), <<>>), levels, WrapWidth)

\* A SampleRef node as Live of the given schema writes it.  linked says how
\* the reference is tied to the project folder: "absolute" (type 1, no
\* relative path), "collected" (type 3, under Samples/Imported) or "stale"
\* (type 1 with the relative path of an earlier collect left in place).
RefNode(schema_version, absolute, linked, size, last_modified) ==
    LET type == IF linked = "collected" THEN 3 ELSE 1
        folders == IF linked = "absolute" THEN <<>> ELSE <<"Samples", "Imported">>
    IN IF IsModern(schema_version)
       THEN [LastModDate |-> last_modified,
             OriginalFileSize |-> size,
             RelativePathType |-> type,
             RelativePath |-> IF linked = "absolute" THEN ""
                              ELSE "Samples/Imported/" \o PathName(absolute),
             Path |-> absolute]
       ELSE [LastModDate |-> last_modified,
             FileSize |-> size,
             RelativePathType |-> type,
             HasRelativePath |-> IF linked = "collected" THEN "true" ELSE "false",
             RelativePathElement |-> folders,
             Name |-> PathName(absolute),
             Data |-> DataBlock(absolute, DataLevels),
             OriginalData |-> IF linked = "stale"
                              THEN StrValue(DataBlock(absolute, DataLevels + 2))
                              ELSE NoneValue]

Entry(path, size, last_modified) ==
    [path |-> path,
     info |-> [name |-> PathName(path), size |-> size, last_modified |-> last_modified]]

\* Documents of up to MaxRefs references to kick.wav (missing, present on
\* disk, or factory content) against a database of one or two kick.wav.
ManyRefs(schema_version) ==
    LET nodes ==
            { RefNode(schema_version, "/old/kick.wav", "absolute", s, 123456) :
                s \in {0, 1000} }
            \cup { RefNode(schema_version, "/old/kick.wav", l, 1000, 123456) :
                l \in {"collected", "stale"} }
            \cup { RefNode(schema_version, a, "absolute", 1000, 123456) :
                a \in { "/here/kick.wav",
                        "/L/Resources/Builtin/Samples/kick.wav",
                        "/U/Ableton/Factory Packs/kick.wav" } }
        first == { Entry("/lib/kick.wav", s, FloatValue(m, 0)) :
                     s \in {1000, 2000}, m \in {123456, 999} }
        second == Entry("/lib2/kick.wav", 1000, FloatValue(123456, 0))
        dbs == { <<e>> : e \in first }
               \cup { <<e, second>> : e \in { x \in first : x.info.size = 2000 } }
    IN { [refs |-> r, db |-> d, force |-> FALSE] :
           r \in UNION { [1..n -> nodes] : n \in 1..MaxRefs }, d \in dbs }

\* Documents of one missing reference against a database of one entry, over
\* the sizes and times that decide the match, zero and a fractional
\* st_mtime included; an entry of another name; the force flag set.
OneRef(schema_version) ==
    LET doc(s, m, p, es, em, et, f) ==
            [refs |-> << RefNode(schema_version, "/old/kick.wav", "absolute", s, m) >>,
             db |-> << Entry(p, es, FloatValue(em, et)) >>,
             force |-> f]
    IN { doc(s, m, "/lib/kick.wav", es, em, et, FALSE) :
           s \in {0, 1000, 2000}, m \in {0, 123456},
           es \in {0, 1000, 2000}, em \in {0, 999, 123456}, et \in {0, 5} }
       \cup { doc(1000, 123456, "/lib/snare.wav", 1000, 123456, 0, f) : f \in BOOLEAN }
       \cup { doc(1000, 123456, "/lib/kick.wav", es, 123456, 0, TRUE) : es \in {1000, 2000} }

\* the files on disk: the set, the project marker, a sample of the project
\* folder, the samples the database was built from, a sample in place
DiskFiles(marker, target, entries) ==
    LET pairs == { <<SetPath, 1>>, <<"/here/kick.wav", 1000>> }
                 \cup (IF marker THEN { <<ProjectInfo, 1>> } ELSE {})
                 \cup { <<TargetPath, target[k]>> : k \in DOMAIN target }
                 \cup { <<entries[k].path, entries[k].info.size>> : k \in DOMAIN entries }
    IN [p \in { x[1] : x \in pairs } |-> (CHOOSE x \in pairs : x[1] = p)[2]]

FixIdle ==
    /\ ableton_set = [path |-> "", version_tuple |-> <<>>, project_root_folder |-> NoneValue,
                      sample_list |-> <<>>, SampleRef |-> <<>>]
    /\ db = <<>>
    /\ collect_and_save = FALSE
    /\ force = FALSE
    /\ found_samples = <<>>
    /\ missing_samples = 0
    /\ fixed_samples = 0
    /\ fs = <<>>
    /\ dirs = {}
    /\ fix_i = 0
    /\ fix_pc = "idle"
    /\ fix_exc = ""
    /\ fix_log = <<>>
    /\ report = NoReport

\* A parsed Document (AbletonSet.__init__, parse, load_version) about to be
\* given to fix_samples.
FixInit ==
    \E schema_version \in FixVersions, marker \in BOOLEAN :
    \E target \in (IF marker THEN { <<>>, <<1000>>, <<2000>> } ELSE { <<>> }) :
    \E given \in ManyRefs(schema_version) \cup OneRef(schema_version) :
        /\ ableton_set = [path |-> SetPath,
                          version_tuple |-> schema_version,
                          project_root_folder |-> NoneValue,
                          sample_list |-> <<>>,
                          SampleRef |-> given.refs]
        /\ db = given.db
        /\ collect_and_save \in BOOLEAN
        /\ force = given.force
        /\ found_samples = <<>>
        /\ missing_samples = 0
        /\ fixed_samples = 0
        /\ fs = DiskFiles(marker, target, given.db)
        /\ dirs = UNION { WithParents(PathParent(p)) : p \in DOMAIN fs }
        /\ fix_i = 0
        /\ fix_pc = "call"
        /\ fix_exc = ""
        /\ fix_log = <<>>
        /\ report = NoReport

(***************************************************************************)
(* find_project_root_folder on its own: a set file some directories deep,  *)
(* project markers in some of the directories above it, and markers made   *)
(* or removed between the calls.  The results are kept in fix_log.         *)
(***************************************************************************)
\* The directories between "/" and the set file, and the calls of a run.
MaxDepth == 12

MaxFinds == 2

RECURSIVE DeepDir(_)
DeepDir(n) == IF n = 0 THEN "" ELSE "/d" \o DeepDir(n - 1)

\* self.path.parents, nearest first.
RECURSIVE Parents(_)
Parents(p) ==
    IF PathParent(p) \in {"/", "."} THEN <<PathParent(p)>>
    ELSE <<PathParent(p)>> \o Parents(PathParent(p))

Marker(dir) == PathJoin(dir, "Ableton Project Info")

\* The markers on disk.
Markers == { p \in DOMAIN fs : PathName(p) = "Ableton Project Info" }

RootInit ==
    \E n \in {1, MaxDepth} :
    \E marked \in { m \in SUBSET (1..(n + 1)) : Cardinality(m) <= 2 } :
        /\ ableton_set = [path |-> DeepDir(n) \o "/song.als",
                          version_tuple |-> <<11, 0, 0>>,
                          project_root_folder |-> NoneValue,
                          sample_list |-> <<>>,
                          SampleRef |-> <<>>]
        /\ fs = [p \in { ableton_set.path }
                       \cup { Marker(Parents(ableton_set.path)[i]) : i \in marked } |-> 1]
        /\ dirs = {}
        /\ db = <<>>
        /\ collect_and_save = FALSE
        /\ force = FALSE
        /\ found_samples = <<>>
        /\ missing_samples = 0
        /\ fixed_samples = 0
        /\ fix_i = 0
        /\ fix_pc = "find"
        /\ fix_exc = ""
        /\ fix_log = <<>>
        /\ report = NoReport

\* A call of find_project_root_folder: what it returns, and whether
\* self.project_root_folder was set before.
FindProjectRootFolder ==
    /\ fix_pc = "find"
    /\ fix_i < MaxFinds
    /\ fix_i' = fix_i + 1
    /\ ableton_set' = [ableton_set EXCEPT !.project_root_folder = find_project_root_folder]
    /\ fix_log' = Append(fix_log, [op |-> "find_project_root_folder",
                                   ret |-> find_project_root_folder,
                                   known |-> ableton_set.project_root_folder # NoneValue])
    /\ UNCHANGED <<db, collect_and_save, force, found_samples, missing_samples,
                   fixed_samples, fs, dirs, fix_pc, fix_exc, report>>

\* Between two calls a project marker is made in a directory above the set.
MarkerMade ==
    /\ fix_pc = "find"
    /\ fix_i = 1
    /\ Cardinality(Markers) < 2
    /\ \E i \in DOMAIN Parents(ableton_set.path) :
          /\ Marker(Parents(ableton_set.path)[i]) \notin DOMAIN fs
          /\ fs' = (Marker(Parents(ableton_set.path)[i]) :> 1) @@ fs
    /\ UNCHANGED <<ableton_set, db, collect_and_save, force, found_samples,
                   missing_samples, fixed_samples, dirs, fix_i, fix_pc, fix_exc,
                   fix_log, report>>

\* Between two calls a project marker is removed.
MarkerRemoved ==
    /\ fix_pc = "find"
    /\ fix_i = 1
    /\ \E m \in Markers : fs' = [p \in DOMAIN fs \ {m} |-> fs[p]]
    /\ UNCHANGED <<ableton_set, db, collect_and_save, force, found_samples,
                   missing_samples, fixed_samples, dirs, fix_i, fix_pc, fix_exc,
                   fix_log, report>>

(***************************************************************************)
(* list_samples and fix_samples called one after the other on the same     *)
(* Document, as cli.process_set does with --check-samples and a fix option *)
(* and as a caller of the library may do after an exception.  The         *)
(* Documents hold references whose Data text cannot be decoded as well.    *)
(***************************************************************************)
\* The calls made on one Document.
MaxRuns == 2

\* Data text of an odd number of bytes, which the utf-16 decoder refuses.
UndecodableData == BlockText(HexOf(<<47, 0, 97>>, <<>>), DataLevels, WrapWidth)

\* Data text that is not hexadecimal.
MalformedData == BlockText(<<"4", "G">>, DataLevels, WrapWidth)

\* _list_samples, lines 541-554, for the reference parsed.
ListParsed(parsed, list, rel) ==
    IF absolute_exists(parsed, fs, dirs) THEN PassSame("", "resolved", list, missing_samples)
    ELSE IF rel.exc # "" THEN PassSame(rel.exc, "raised", list, missing_samples)
    ELSE IF rel.value THEN PassSame("", "resolved", list, missing_samples)
    ELSE PassSame("", "missing", list, missing_samples + 1)

\* _iterate_samples as _list_samples drives it.
ListMade(from_tree, made) ==
    IF made.exc # "" THEN PassSame(made.exc, "raised", ableton_set.sample_list, missing_samples)
    ELSE ListParsed(made.ref,
                    IF from_tree THEN Append(ableton_set.sample_list, made.ref)
                    ELSE ableton_set.sample_list,
                    relative_exists(made.ref, fs, dirs))

\* The reference _iterate_samples yields at position i: parsed from the
\* tree, or taken from sample_list.
Yielded(from_tree, i) ==
    IF from_tree
    THEN from_element(ableton_set.SampleRef[i], i, ableton_set.version_tuple,
                      ableton_set.project_root_folder)
    ELSE [exc |-> "", ref |-> ableton_set.sample_list[i]]

ListReference(i) == ListMade(fix_pc = "list_tree", Yielded(fix_pc = "list_tree", i))

\* list_samples is called: lines 556-563, and the start of _iterate_samples.
ListSamplesBegin ==
    /\ fix_pc = "list_call"
    /\ ableton_set' = [ableton_set EXCEPT !.project_root_folder = find_project_root_folder]
    /\ missing_samples' = 0
    /\ fix_i' = 1
    /\ fix_pc' = IF ableton_set.sample_list # <<>> THEN "list_list" ELSE "list_tree"
    /\ UNCHANGED <<db, collect_and_save, force, found_samples, fixed_samples, fs, dirs,
                   fix_exc, fix_log, report>>

ListLength ==
    IF fix_pc = "list_tree" THEN Len(ableton_set.SampleRef) ELSE Len(ableton_set.sample_list)

\* One pass of the loop of _list_samples.
ListSamplesStep ==
    /\ fix_pc \in {"list_tree", "list_list"}
    /\ fix_i <= ListLength
    /\ \E r \in { ListReference(fix_i) } :
          /\ ableton_set' = [ableton_set EXCEPT !.sample_list = r.sample_list]
          /\ missing_samples' = r.missing_samples
          /\ fix_log' = Append(fix_log, r.log)
          /\ fix_exc' = r.exc
          /\ fix_pc' = IF r.exc = "" THEN fix_pc ELSE "raised"
    /\ fix_i' = fix_i + 1
    /\ UNCHANGED <<db, collect_and_save, force, found_samples, fixed_samples, fs, dirs,
                   report>>

\* _list_samples returns.
ListSamplesEnd ==
    /\ fix_pc \in {"list_tree", "list_list"}
    /\ fix_i > ListLength
    /\ fix_pc' = "done"
    /\ UNCHANGED <<ableton_set, db, collect_and_save, force, found_samples,
                   missing_samples, fixed_samples, fs, dirs, fix_i, fix_exc, fix_log,
                   report>>

\* The calls that have ended are marked in fix_log.
CallEnd(how) == [outcome |-> "end", via |-> how, tests |-> <<>>, db_calls |-> 0]

Runs == 1 + Cardinality({ k \in DOMAIN fix_log : fix_log[k].outcome = "end" })

\* The call has returned or raised, and the caller makes the next call.
NextCall ==
    /\ fix_pc \in {"done", "raised"}
    /\ Runs < MaxRuns
    /\ fix_pc' \in {"call", "list_call"}
    /\ fix_log' = Append(fix_log, CallEnd(fix_pc))
    /\ fix_exc' = ""
    /\ fix_i' = 0
    /\ UNCHANGED <<ableton_set, db, collect_and_save, force, found_samples,
                   missing_samples, fixed_samples, fs, dirs, report>>

\* Documents of up to MaxRefs references: missing, present on disk, with the
\* relative path of a collect, and (schema before 11) with Data text that
\* does not decode; a database with the missing sample.
RunRefs(schema_version) ==
    LET missing == RefNode(schema_version, "/old/kick.wav", "absolute", 1000, 123456)
        nodes == { missing,
                   RefNode(schema_version, "/here/kick.wav", "absolute", 1000, 123456),
                   RefNode(schema_version, "/old/kick.wav", "stale", 1000, 123456) }
                 \cup (IF IsModern(schema_version) THEN {}
                       ELSE { [missing EXCEPT !.Data = UndecodableData],
                              [missing EXCEPT !.Data = MalformedData] })
    IN UNION { [1..n -> nodes] : n \in 1..MaxRefs }

RunsInit ==
    \E schema_version \in FixVersions, marker \in BOOLEAN :
    \E refs \in RunRefs(schema_version) :
        /\ ableton_set = [path |-> SetPath,
                          version_tuple |-> schema_version,
                          project_root_folder |-> NoneValue,
                          sample_list |-> <<>>,
                          SampleRef |-> refs]
        /\ db = << Entry("/lib/kick.wav", 1000, FloatValue(123456, 0)) >>
        /\ collect_and_save \in BOOLEAN
        /\ force = FALSE
        /\ found_samples = <<>>
        /\ missing_samples = 0
        /\ fixed_samples = 0
        /\ fs = DiskFiles(marker, <<>>, db)
        /\ dirs = UNION { WithParents(PathParent(p)) : p \in DOMAIN fs }
        /\ fix_i = 0
        /\ fix_pc \in {"call", "list_call"}
        /\ fix_exc = ""
        /\ fix_log = <<>>
        /\ report = NoReport

(***************************************************************************)
(* save_set.  The set directory (disk) and its backup directory are        *)
(* functions from the names of the files present to the files.  The name   *)
(* of the set is given by the version prefix and the bars/bpm suffix       *)
(* save_set puts round the stem the set was opened under; a backup is      *)
(* named by the name of the file moved and its number N.  write_set runs   *)
(* in a thread of its own, whose position is thread_pc.                    *)
(***************************************************************************)
SetName(prefix, bars) == [prefix |-> prefix, bars |-> bars]

OriginalName == SetName(<<>>, NoneValue)

\* re.sub(r"_\d{1,3}bars_\d{1,3}\.\d{2}bpm", "", stem)
\*     + f"_{self.furthest_bar}bars_{self.bpm:.2f}bpm.als"
\* for a furthest_bar below 1000 and a bpm below 1000, which the pattern
\* removes again on the next save.
AppendBarsBpm(name, bpm_value) == [name EXCEPT !.bars = bpm_value]

\* f"{major}.{minor}.{patch}_" + re.sub(r"\d{1,2}\.\d{1,3}\.[b\d]{1,5}_", "", stem)
PrependVersion(name, vt) == [name EXCEPT !.prefix = vt]

SetFile(data, mtime) == [data |-> data, mtime |-> mtime]

\* A file moved to the backup directory by an earlier run.
EarlierFile == SetFile([magic |-> "1f8b", data |-> NoneValue], 0)

\* The number of save_set calls in a run, and the backup numbers tried.
MaxSaves == 2

MaxBackups == 4

\* Mutant of ending_int: the first backup name is always taken.
ending_int_first(dir, name) == 1

\* create_backup: the smallest ending_int >= 1 whose backup_path does not exist.
ending_int(dir, name) ==
    CHOOSE n \in 1..MaxBackups :
        /\ <<name, n>> \notin DOMAIN dir
        /\ \A m \in 1..(n - 1) : <<name, m>> \in DOMAIN dir

\* create_backup(pathlib_obj), for a file that exists: pathlib_obj.rename(backup_path).
create_backup(files, dir, name) ==
    LET moved_to == <<name, ending_int(dir, name)>>
    IN [disk |-> [x \in DOMAIN files \ {name} |-> files[x]],
        backup_dir |-> (moved_to :> files[name]) @@ dir,
        backup_path |-> moved_to]

\* The time a file written now gets.
Now == 2 + save_count

SaveIdle ==
    /\ save_path = OriginalName
    /\ last_modification_time = <<>>
    /\ disk = <<>>
    /\ backup_dir = <<>>
    /\ backup_path = NoneValue
    /\ save_pc = "idle"
    /\ save_exc = "none"
    /\ thread_pc = "none"
    /\ thread_exc = "none"
    /\ save_count = 0

\* An AbletonSet constructed for a set file on disk, whose backup directory
\* is empty or holds earlier backups (numbered 1, or 2 with 1 missing).
SaveInit ==
    /\ DocInit
    /\ save_path = OriginalName
    /\ last_modification_time = <<>>
    /\ disk = (OriginalName :> SetFile(file, 1))
    /\ backup_dir \in { <<>>,
                        (<<OriginalName, 1>> :> EarlierFile),
                        (<<OriginalName, 2>> :> EarlierFile) }
    /\ backup_path = NoneValue
    /\ save_pc = "ready"
    /\ save_exc = "none"
    /\ thread_pc = "none"
    /\ thread_exc = "none"
    /\ save_count = 0

\* parse(), with the get_file_times() it calls once the magic bytes are
\* those of gzip.  The set is parsed before it is saved.
SaveParse ==
    /\ save_pc = "ready"
    /\ save_count = 0
    /\ save_path \in DOMAIN disk
    /\ Parse
    /\ last_modification_time' =
           IF file.magic = "1f8b" THEN <<disk[save_path].mtime>>
           ELSE last_modification_time
    /\ UNCHANGED <<save_path, disk, backup_dir, backup_path, save_pc, save_exc,
                   thread_pc, thread_exc, save_count>>

\* A call of the calling thread on the Document between saves.
SaveDocCall(call) ==
    /\ save_pc = "ready"
    /\ call
    /\ UNCHANGED saveVars

\* save_set up to thread.start().  A path that does not exist makes rename
\* raise FileNotFoundError; a bpm of None makes the format raise TypeError
\* after the original was moved.
SaveSet(append_bars_bpm, prepend_version) ==
    /\ save_pc = "ready"
    /\ save_count < MaxSaves
    /\ save_count' = save_count + 1
    /\ UNCHANGED <<docVars, last_modification_time>>
    /\ IF save_path \notin DOMAIN disk
       THEN /\ save_exc' = "FileNotFoundError"
            /\ UNCHANGED <<save_path, disk, backup_dir, backup_path, save_pc,
                           thread_pc, thread_exc>>
       ELSE \E moved \in { create_backup(disk, backup_dir, save_path) } :
              /\ disk' = moved.disk
              /\ backup_dir' = moved.backup_dir
              /\ backup_path' = moved.backup_path
              /\ IF append_bars_bpm /\ bpm = NoneValue
                 THEN /\ save_exc' = "TypeError"
                      /\ UNCHANGED <<save_path, save_pc, thread_pc, thread_exc>>
                 ELSE /\ save_exc' = "none"
                      /\ save_path' =
                           LET named == IF append_bars_bpm
                                        THEN AppendBarsBpm(save_path, bpm)
                                        ELSE save_path
                           IN IF version_tuple # <<>> /\ prepend_version
                              THEN PrependVersion(named, version_tuple)
                              ELSE named
                      /\ save_pc' = "join"
                      /\ thread_pc' = "open"
                      /\ thread_exc' = "none"

\* write_set: gzip.open(self.path, "wb") creates or truncates the file.
WriteSetOpen ==
    /\ thread_pc = "open"
    /\ disk' = (save_path :> SetFile([magic |-> "1f8b", data |-> NoneValue], Now)) @@ disk
    /\ thread_pc' = "write"
    /\ UNCHANGED <<docVars, save_path, last_modification_time, backup_dir,
                   backup_path, save_pc, save_exc, thread_exc, save_count>>

\* write_set: fd.write(self.generate_xml()) and the end of the with block.
\* generate_xml raises SetError when root is None; the exception ends the
\* thread and the file is closed as it is.
WriteSetWrite ==
    /\ thread_pc = "write"
    /\ IF root = NoneValue
       THEN /\ thread_exc' = "SetError"
            /\ thread_pc' = "finished"
            /\ disk' = disk
       ELSE /\ thread_exc' = thread_exc
            /\ thread_pc' = "restore"
            /\ disk' = [disk EXCEPT ![save_path].data = [magic |-> "1f8b", data |-> root]]
    /\ UNCHANGED <<docVars, save_path, last_modification_time, backup_dir,
                   backup_path, save_pc, save_exc, save_count>>

\* write_set: restore_file_times(self.path).
WriteSetRestore ==
    /\ thread_pc = "restore"
    /\ disk' = IF last_modification_time = <<>> THEN disk
               ELSE [disk EXCEPT ![save_path].mtime = last_modification_time[1]]
    /\ thread_pc' = "finished"
    /\ UNCHANGED <<docVars, save_path, last_modification_time, backup_dir,
                   backup_path, save_pc, save_exc, thread_exc, save_count>>

\* thread.join() returns once the thread has ended, by returning or by an
\* exception of its own.
ThreadJoined == thread_pc = "finished"

\* save_set from thread.join() to its return.
SaveSetJoin ==
    /\ save_pc = "join"
    /\ ThreadJoined
    /\ save_pc' = "ready"
    /\ UNCHANGED <<docVars, save_path, last_modification_time, disk, backup_dir,
                   backup_path, save_exc, thread_pc, thread_exc, save_count>>

(***************************************************************************)
(* cli.process: the loop over the sets of a batch.  process_set is run     *)
(* with no option set, so that it parses the set, loads its version,       *)
(* prints its bpm and returns; proc_pc is the position in process_set and  *)
(* in the loop.                                                            *)
(***************************************************************************)
\* The number of sets of a batch.
MaxBatch == 2

BatchIdle ==
    /\ batch = <<>>
    /\ batch_i = 0
    /\ proc_pc = "idle"
    /\ attempted = <<>>
    /\ batch_exc = "none"
    /\ terminal = FALSE

\* process(args) for the sets found by get_pathlib_objects; terminal tells
\* whether standard output is a terminal.
BatchInit ==
    /\ DocIdle
    /\ batch \in UNION { [1..n -> Files] : n \in 0..MaxBatch }
    /\ batch_i = 1
    /\ proc_pc = "start"
    /\ attempted = <<>>
    /\ batch_exc = "none"
    /\ terminal \in BOOLEAN

\* "if not pathlib_objects: return -1"
ProcessStart ==
    /\ proc_pc = "start"
    /\ proc_pc' = IF batch = <<>> THEN "returned -1" ELSE "loop"
    /\ UNCHANGED <<docVars, batch, batch_i, attempted, batch_exc, terminal>>

\* The for loop: process_set constructs AbletonSet(pathlib_obj); after the
\* last set process returns 0.
ProcessNext ==
    /\ proc_pc = "loop"
    /\ IF batch_i > Len(batch)
       THEN /\ proc_pc' = "returned 0"
            /\ UNCHANGED <<docVars, attempted>>
       ELSE /\ proc_pc' = "parse"
            /\ attempted' = Append(attempted, batch_i)
            /\ file' = batch[batch_i]
            /\ root' = NoneValue
            /\ version' = NoneValue
            /\ version_tuple' = <<>>
            /\ tracks' = <<>>
            /\ bpm' = NoneValue
            /\ last' = Outcome("init", "", "None", "none", "", FALSE)
            /\ calls' = 0
    /\ UNCHANGED <<batch, batch_i, batch_exc, terminal>>

\* process_set: "if not ableton_set.parse(): return -2"
ProcessParse ==
    /\ proc_pc = "parse"
    /\ Parse
    /\ proc_pc' = IF last'.ret = "False" THEN "separator" ELSE "load_version"
    /\ UNCHANGED <<batch, batch_i, attempted, batch_exc, terminal>>

\* process_set: ableton_set.load_version()
ProcessLoadVersion ==
    /\ proc_pc = "load_version"
    /\ LoadVersion
    /\ proc_pc' = IF last'.exc # "none" THEN "except" ELSE "get_bpm"
    /\ UNCHANGED <<batch, batch_i, attempted, batch_exc, terminal>>

\* process_set: ableton_set.get_bpm() and, with no option set, the rest of
\* process_set up to "return 0".
ProcessGetBpm ==
    /\ proc_pc = "get_bpm"
    /\ GetBpm
    /\ proc_pc' = IF last'.exc # "none" THEN "except" ELSE "separator"
    /\ UNCHANGED <<batch, batch_i, attempted, batch_exc, terminal>>

\* process: "except ElementNotFound" handles that exception alone; any other
\* one leaves process.
ProcessExcept ==
    /\ proc_pc = "except"
    /\ IF last.exc = "ElementNotFound"
       THEN proc_pc' = "separator" /\ batch_exc' = batch_exc
       ELSE proc_pc' = "aborted" /\ batch_exc' = last.exc
    /\ UNCHANGED <<docVars, batch, batch_i, attempted, terminal>>

\* process: the separator line after each set; os.get_terminal_size()
\* raises OSError when standard output is not a terminal.
ProcessSeparator ==
    /\ proc_pc = "separator"
    /\ IF terminal
       THEN proc_pc' = "loop" /\ batch_i' = batch_i + 1 /\ batch_exc' = batch_exc
       ELSE proc_pc' = "aborted" /\ batch_i' = batch_i /\ batch_exc' = "OSError"
    /\ UNCHANGED <<docVars, batch, attempted, terminal>>

(***************************************************************************)
(* Specifications.  Each one drives one part of the program and leaves the *)
(* variables of the other parts at rest.                                   *)
(***************************************************************************)
InitVersion == VersionInit /\ DocIdle /\ CodecIdle /\ XmlIdle /\ FixIdle /\ SaveIdle /\ BatchIdle

NextVersion == VersionSupportedCall /\ UNCHANGED <<docVars, codecVars, xmlVars, fixVars, saveVars, batchVars>>

SpecVersion == InitVersion /\ [][NextVersion]_vars

Init == DocInit /\ VersionIdle /\ CodecIdle /\ XmlIdle /\ FixIdle /\ SaveIdle /\ BatchIdle

nonDocVars == <<versionVars, codecVars, xmlVars, fixVars, saveVars, batchVars>>

Next ==
    \/ Parse /\ UNCHANGED nonDocVars
    \/ LoadVersion /\ UNCHANGED nonDocVars
    \/ LoadTracks /\ UNCHANGED nonDocVars
    \/ GetBpm /\ UNCHANGED nonDocVars
    \/ \E n \in OutputNumbers, e \in ElementStrings :
           SetAudioOutput(n, e) /\ UNCHANGED nonDocVars
    \/ \E h \in Heights : SetTrackHeights(h) /\ UNCHANGED nonDocVars
    \/ \E w \in Widths : SetTrackWidths(w) /\ UNCHANGED nonDocVars
    \/ FoldTracks /\ UNCHANGED nonDocVars
    \/ UnfoldTracks /\ UNCHANGED nonDocVars
    \/ GenerateXml /\ UNCHANGED nonDocVars

Spec == Init /\ [][Next]_vars

InitCodec == CodecInit /\ VersionIdle /\ DocIdle /\ XmlIdle /\ FixIdle /\ SaveIdle /\ BatchIdle

nonCodecVars == <<versionVars, docVars, xmlVars, fixVars, saveVars, batchVars>>

NextCodec ==
    \/ StringToHex /\ UNCHANGED nonCodecVars
    \/ ParseHexPath /\ UNCHANGED nonCodecVars
    \/ SetParseHexPath /\ UNCHANGED nonCodecVars

SpecCodec == InitCodec /\ [][NextCodec]_vars

InitXml == XmlInit /\ VersionIdle /\ DocIdle /\ CodecIdle /\ FixIdle /\ SaveIdle /\ BatchIdle

nonXmlVars == <<versionVars, docVars, codecVars, fixVars, saveVars, batchVars>>

NextXml ==
    \/ XmlToString /\ UNCHANGED nonXmlVars
    \/ StringToXml /\ UNCHANGED nonXmlVars
    \/ XmlToStringAgain /\ UNCHANGED nonXmlVars

SpecXml == InitXml /\ [][NextXml]_vars

InitFix == FixInit /\ VersionIdle /\ DocIdle /\ CodecIdle /\ XmlIdle /\ SaveIdle /\ BatchIdle

nonFixVars == <<versionVars, docVars, codecVars, xmlVars, saveVars, batchVars>>

NextFix ==
    \/ FixSamplesBegin /\ UNCHANGED nonFixVars
    \/ FixSamplesStep /\ UNCHANGED nonFixVars
    \/ FixSamplesReport /\ UNCHANGED nonFixVars

SpecFix == InitFix /\ [][NextFix]_vars

InitSave == SaveInit /\ VersionIdle /\ CodecIdle /\ XmlIdle /\ FixIdle /\ BatchIdle

nonSaveVars == <<versionVars, codecVars, xmlVars, fixVars, batchVars>>

NextSave ==
    \/ SaveParse /\ UNCHANGED nonSaveVars
    \/ SaveDocCall(LoadVersion) /\ UNCHANGED nonSaveVars
    \/ SaveDocCall(GetBpm) /\ UNCHANGED nonSaveVars
    \/ SaveDocCall(FoldTracks) /\ UNCHANGED nonSaveVars
    \/ SaveDocCall(UnfoldTracks) /\ UNCHANGED nonSaveVars
    \/ \E append_bars_bpm \in BOOLEAN, prepend_version \in BOOLEAN :
           SaveSet(append_bars_bpm, prepend_version) /\ UNCHANGED nonSaveVars
    \/ WriteSetOpen /\ UNCHANGED nonSaveVars
    \/ WriteSetWrite /\ UNCHANGED nonSaveVars
    \/ WriteSetRestore /\ UNCHANGED nonSaveVars
    \/ SaveSetJoin /\ UNCHANGED nonSaveVars

SpecSave == InitSave /\ [][NextSave]_vars

InitBatch == BatchInit /\ VersionIdle /\ CodecIdle /\ XmlIdle /\ FixIdle /\ SaveIdle

nonBatchVars == <<versionVars, codecVars, xmlVars, fixVars, saveVars>>

NextBatch ==
    \/ ProcessStart /\ UNCHANGED nonBatchVars
    \/ ProcessNext /\ UNCHANGED nonBatchVars
    \/ ProcessParse /\ UNCHANGED nonBatchVars
    \/ ProcessLoadVersion /\ UNCHANGED nonBatchVars
    \/ ProcessGetBpm /\ UNCHANGED nonBatchVars
    \/ ProcessExcept /\ UNCHANGED nonBatchVars
    \/ ProcessSeparator /\ UNCHANGED nonBatchVars

SpecBatch == InitBatch /\ [][NextBatch]_vars

InitRoot == RootInit /\ VersionIdle /\ DocIdle /\ CodecIdle /\ XmlIdle /\ SaveIdle /\ BatchIdle

NextRoot ==
    \/ FindProjectRootFolder /\ UNCHANGED nonFixVars
    \/ MarkerMade /\ UNCHANGED nonFixVars
    \/ MarkerRemoved /\ UNCHANGED nonFixVars

SpecRoot == InitRoot /\ [][NextRoot]_vars

InitRuns == RunsInit /\ VersionIdle /\ DocIdle /\ CodecIdle /\ XmlIdle /\ SaveIdle /\ BatchIdle

NextRuns ==
    \/ FixSamplesBegin /\ UNCHANGED nonFixVars
    \/ FixSamplesStep /\ UNCHANGED nonFixVars
    \/ FixSamplesReport /\ UNCHANGED nonFixVars
    \/ ListSamplesBegin /\ UNCHANGED nonFixVars
    \/ ListSamplesStep /\ UNCHANGED nonFixVars
    \/ ListSamplesEnd /\ UNCHANGED nonFixVars
    \/ NextCall /\ UNCHANGED nonFixVars

SpecRuns == InitRuns /\ [][NextRuns]_vars

(***************************************************************************)
(* Claims.                                                                 *)
(***************************************************************************)

\* Lexicographic order on triples, stated without the loop: equal, or the
\* first differing component is greater.
LexGE(a, b) ==
    \/ a = b
    \/ \E i \in 1..3 : a[i] > b[i] /\ \A j \in 1..(i - 1) : a[j] = b[j]

\* C1: version_supported(current, minimum) is true exactly when current is
\* lexicographically >= minimum (the first differing component decides), and
\* version_supported(v, v) is true for every triple v.
C1_VersionLexicographic ==
    vs_result \in {"True", "False"} =>
        /\ (vs_result = "True") <=> LexGE(set_version, supported_version)
        /\ (set_version = supported_version => vs_result = "True")

\* C1 witness: a call on equal triples, with a non-zero component, has returned.
C1_Witness ==
    /\ vs_result = "True"
    /\ set_version = supported_version
    /\ set_version[3] > 0

\* The minimum version each gated operation is decorated with.
GatedOps == {"load_tracks", "get_bpm", "set_audio_output"}

SupportedVersion(op) == IF op = "load_tracks" THEN <<8, 0, 0>> ELSE <<8, 2, 0>>

Unsupported(out) ==
    /\ out.exc = "SetError"
    /\ out.log = "not supported for this version!"
    /\ ~out.body

\* C2: for every operation wrapped by above_version(m) and every detected
\* version v: when v is below m the body is not executed, the tree (and what
\* the body would assign) is unchanged and the caller gets the typed
\* unsupported condition; when v is equal to or above m the body executes.
C2_VersionGate ==
    [][ (calls' = calls + 1 /\ last'.op \in GatedOps /\ version_tuple # <<>>) =>
          IF LexGE(version_tuple, SupportedVersion(last'.op))
          THEN last'.body
          ELSE /\ Unsupported(last')
               /\ root' = root /\ tracks' = tracks /\ bpm' = bpm
      ]_vars

\* C2 witness: set_audio_output with a valid slot was refused as unsupported
\* on a Document detected as 8.1.9, below its minimum (8, 2, 0).
C2_Witness ==
    /\ last.op = "set_audio_output"
    /\ last.arg[1] = 1
    /\ version_tuple = <<8, 1, 9>>
    /\ Unsupported(last)

\* The value a clamp to [17, top] must store, stated case by case.
Clamped(x, top) == IF x < 17 THEN 17 ELSE IF x > top THEN top ELSE x

\* C5: after set_track_heights(h) on a loaded Document every LaneHeight node
\* holds min(425, max(17, h)), after set_track_widths(w) every
\* ViewStateSesstionTrackWidth node holds min(264, max(17, w)); the stored
\* values lie in [17,425] and [17,264]; repeating the call with the same
\* argument leaves the stored value the same.
C5_ClampHeightsWidths ==
    [][ (calls' = calls + 1 /\ last'.exc = "none") =>
          /\ last'.op = "set_track_heights" =>
                /\ DOMAIN root'.LaneHeight = DOMAIN root.LaneHeight
                /\ \A i \in DOMAIN root'.LaneHeight :
                      /\ root'.LaneHeight[i] = IntToStr(Clamped(last'.arg, 425))
                      /\ ParseInt(root'.LaneHeight[i]) \in 17..425
                /\ (last.op = "set_track_heights" /\ last.exc = "none"
                        /\ last.arg = last'.arg)
                       => root'.LaneHeight = root.LaneHeight
          /\ last'.op = "set_track_widths" =>
                /\ DOMAIN root'.ViewStateSesstionTrackWidth
                       = DOMAIN root.ViewStateSesstionTrackWidth
                /\ \A i \in DOMAIN root'.ViewStateSesstionTrackWidth :
                      /\ root'.ViewStateSesstionTrackWidth[i]
                            = IntToStr(Clamped(last'.arg, 264))
                      /\ ParseInt(root'.ViewStateSesstionTrackWidth[i]) \in 17..264
                /\ (last.op = "set_track_widths" /\ last.exc = "none"
                        /\ last.arg = last'.arg)
                       => root'.ViewStateSesstionTrackWidth
                            = root.ViewStateSesstionTrackWidth
      ]_vars

\* C5 witness: set_track_heights(5) has stored the lower limit in a tree that
\* has LaneHeight nodes, none of which held it before.
C5_Witness ==
    /\ last.op = "set_track_heights" /\ last.exc = "none" /\ last.arg = 5
    /\ Len(root.LaneHeight) = 2
    /\ \A i \in DOMAIN root.LaneHeight : root.LaneHeight[i] = Chars("17")

\* C3 (as claimed): for any ASCII path string P, decoding the legacy encoding
\* of P gives back P: parse_hex_path(string_to_hex(P)) == P.
C3_RoundTripAscii ==
    (codec_pc = "done" /\ path_str # NoneValue) => codec_out.result = path_str

\* C9: parse_hex_path dispatches on the decoded bytes only: first three
\* bytes all zero -> the struct (mac) decoder, every other byte sequence
\* (also one shorter than three bytes) -> the UTF-16 (windows) decoder,
\* whatever the layout of the text; the result is that decoder's result and
\* AbletonSet._parse_hex_path records the matching operating system.
C9_DispatchOnBytes ==
    (codec_pc = "done" /\ path_str = NoneValue /\ hex_text.val # <<>>) =>
        LET zeros == Len(raw_bytes) >= 3 /\ \A i \in 1..3 : raw_bytes[i] = 0
        IN /\ codec_out.dispatch = (IF zeros THEN "mac" ELSE "windows")
           /\ codec_out.result = (IF zeros THEN parse_mac_data(raw_bytes)
                                           ELSE parse_windows_data(raw_bytes))
           /\ set_os \in {"UNSET", IF zeros THEN "MAC_OS" ELSE "WINDOWS_OS"}

\* C9 witness: two zero bytes followed by a non-zero byte went to the UTF-16
\* decoder, through the method that records the operating system.
C9_Witness ==
    /\ codec_pc = "done"
    /\ raw_bytes = <<0, 0, 65>>
    /\ codec_out.dispatch = "windows"
    /\ set_os = "WINDOWS_OS"

\* A well-formed indented hex block: an empty first line, then tab-indented
\* lines of hex digits (spaces allowed between them) holding at least one
\* digit, then the indentation of the closing tag.
WellFormedBlock(t) ==
    /\ Len(t) >= 2
    /\ t[1] = "\n"
    /\ \A i \in DOMAIN t : IsHexChar(t[i]) \/ t[i] \in {"\t", " ", "\n"}
    /\ \E i \in DOMAIN t : IsHexChar(t[i])
    /\ LET lines == SplitLines(t)
       IN \A k \in 2..Len(lines) :
              \A i \in DOMAIN lines[k] :
                  lines[k][i] = "\t" => \A j \in 1..i : lines[k][j] = "\t"

HexContent(t) == Remove(t, {"\t", " ", "\n"})

\* C4: for a well-formed block T with (h, n) = xml_to_string(T), the text
\* string_to_xml(h, n) has the hex content of T once tabs, spaces and
\* newlines are removed, and xml_to_string of it returns (h, n) again.
C4_XmlRoundTrip ==
    (xml_pc \in {"raised", "write", "reread", "done"} /\ WellFormedBlock(xml_text)) =>
        /\ xml_first.exc = ""
        /\ xml_pc \in {"reread", "done"} => HexContent(xml_out) = HexContent(xml_text)
        /\ xml_pc = "done" => xml_back = xml_first

\* C4 witness: a block of more than two full lines, indented, written with
\* another line width than string_to_xml uses, went through the round trip.
C4_Witness ==
    /\ xml_pc = "done"
    /\ WellFormedBlock(xml_text)
    /\ Len(xml_first.hex) > 2 * WrapWidth
    /\ xml_first.levels = MaxLevels
    /\ xml_out # xml_text
    /\ xml_back = xml_first

\* The reference the pass i of fix_samples was about.
PassRef(i) == ableton_set.sample_list[i]

\* The calls of _fix_sample made so far: the pass and the position in it.
FixTests == UNION { { <<i, k>> : k \in DOMAIN fix_log[i].tests } : i \in DOMAIN fix_log }

\* entry.last_modified == reference.last_modified, for the float st_mtime of
\* the entry and the integer of the reference
SameTime(info, ref) ==
    info.last_modified.tenths = 0 /\ info.last_modified.whole = ref.last_modified

Unresolved(i) == fix_log[i].outcome \in {"fixed", "unfixed"}

SameReference(a, b) ==
    a.name = b.name /\ a.size = b.size /\ a.last_modified = b.last_modified

\* C7: within one run, when two unresolved references carry the same name,
\* size and last-modified and the first one is fixed from the index, the
\* second one is fixed from found_samples and the index is not scanned for it.
C7_SecondFromCache ==
    \A i, j \in DOMAIN fix_log :
        ( /\ i < j
          /\ j \in DOMAIN ableton_set.sample_list
          /\ SameReference(PassRef(i), PassRef(j))
          /\ Unresolved(i) /\ Unresolved(j)
          /\ fix_log[i].outcome = "fixed" /\ fix_log[i].via = "db" )
        => /\ fix_log[j].outcome = "fixed"
           /\ fix_log[j].via = "cache"
           /\ fix_log[j].db_calls = 0

\* C8: in collect-and-save mode, when the target folder already holds a file
\* of the candidate's name whose size differs from the size of the candidate
\* file, the call reports not fixed, the nodes are unchanged and no file is
\* written; when the existing file has the size of the candidate, the copy
\* is skipped and the reference is fixed.  (Of the calls that return.)
C8_CollectConflict ==
    \A x \in FixTests :
        LET t == fix_log[x[1]].tests[x[2]]
        IN (collect_and_save /\ t.accepted /\ t.target_existed /\ t.exc = "") =>
               IF t.target_size # t.candidate_size
               THEN ~t.ret /\ ~t.node_changed /\ ~t.fs_changed
               ELSE t.ret /\ ~t.copied /\ fix_log[x[1]].outcome = "fixed"

\* C10: fix_samples skips every unresolved reference under a factory content
\* fragment without mutating it, and the skipped references do not add to
\* the reported "couldn't fix" count, which counts the references that were
\* tried and not fixed.
C10_SkippedNotCounted ==
    [][ /\ ( /\ Len(fix_log') = Len(fix_log) + 1
             /\ fix_log'[Len(fix_log')].outcome = "skipped" )
           => /\ ableton_set'.SampleRef = ableton_set.SampleRef
              /\ fs' = fs
        /\ report'.logged =>
               report'.couldnt_fix =
                   Cardinality({ i \in DOMAIN fix_log' : fix_log'[i].outcome = "unfixed" })
      ]_vars

\* What from_element reads from a node of the Document.
ReadRef(node) ==
    from_element(node, 0, ableton_set.version_tuple, ableton_set.project_root_folder)

\* The relative-path fields of a node.
RelativeFields(node) ==
    IF IsModern(ableton_set.version_tuple) THEN <<node.RelativePath>>
    ELSE node.RelativePathElement

\* The file the relative-path fields of a node point at, from the project root.
RelativeTarget(node) ==
    IF IsModern(ableton_set.version_tuple)
    THEN PathJoin(ableton_set.project_root_folder.val, node.RelativePath)
    ELSE PathJoin(PathJoin(ableton_set.project_root_folder.val,
                           JoinSlash(node.RelativePathElement)), node.Name)

\* The last call of _fix_sample of a pass.
LastTest(pass) == pass.tests[Len(pass.tests)]

\* The step is a pass whose last entry matched the reference and was not
\* refused for a file already in the project folder.
MatchedStep ==
    /\ fix_pc \in {"iter_tree", "iter_list"}
    /\ Len(fix_log') = Len(fix_log) + 1
    /\ fix_log'[Len(fix_log')].tests # <<>>
    /\ LastTest(fix_log'[Len(fix_log')]).accepted
    /\ \/ LastTest(fix_log'[Len(fix_log')]).ret
       \/ LastTest(fix_log'[Len(fix_log')]).exc # ""

\* One path of the node was rewritten for the call t, as the mode asks.
RewrittenOnePath(before, after, t) ==
    IF collect_and_save /\ ableton_set.project_root_folder # NoneValue
    THEN /\ RelativeTarget(after) = t.target
         /\ t.target \in DOMAIN fs'
         /\ get_relative_type(after) = 3
         /\ ReadRef(after).ref.absolute = ReadRef(before).ref.absolute
    ELSE /\ ReadRef(after).exc = ""
         /\ ReadRef(after).ref.absolute = StrValue(t.path)
         /\ get_relative_type(after) = 1
         /\ RelativeFields(after) = RelativeFields(before)

\* C11: on a successful match fix_samples rewrites exactly one path of the
\* reference: in collect-and-save mode with a known project root the
\* relative-path fields point at the copied file and the type becomes 3;
\* otherwise the absolute-path field becomes the candidate's path and the
\* type becomes 1; for the schema before 11 and the schema from 11 on.
C11_RewritesOnePath ==
    [][ MatchedStep =>
            /\ LastTest(fix_log'[Len(fix_log')]).ret
            /\ RewrittenOnePath(ableton_set.SampleRef[fix_i], ableton_set'.SampleRef[fix_i],
                                LastTest(fix_log'[Len(fix_log')])) ]_vars

\* The operations that need a loaded Document with a known version.
LoadedOps ==
    {"load_tracks", "get_bpm", "set_audio_output", "set_track_heights",
     "set_track_widths", "fold_tracks", "unfold_tracks", "generate_xml"}

\* The typed "set is not loaded" condition.
NotLoaded(out) == out.exc = "SetError" /\ out.log = "Set is not loaded!"

\* C12: an operation that needs a loaded Document with a known version fails
\* with the "Set is not loaded!" SetError, and changes nothing, when it is
\* called before parse() succeeded or after parse() and before
\* load_version().
C12_NotLoadedTyped ==
    [][ ( /\ calls' = calls + 1
          /\ last'.op \in LoadedOps
          /\ root = NoneValue \/ version_tuple = <<>> )
        => /\ NotLoaded(last')
           /\ root' = root /\ tracks' = tracks /\ bpm' = bpm
      ]_vars

\* The decimal text of a number below 100.
TwoDigits(n) ==
    LET d(k) == SubSeq("0123456789", k + 1, k + 1)
    IN IF n < 10 THEN d(n) ELSE d(n \div 10) \o d(n % 10)

\* The chain set_audio_output is to write for a track: DeviceChain, and
\* MasterChain only when the DeviceChain Target is absent.
ChainFor(routing) ==
    IF routing.DeviceChain.Target # <<>> THEN "DeviceChain" ELSE "MasterChain"

OtherChain(chain) == IF chain = "DeviceChain" THEN "MasterChain" ELSE "DeviceChain"

\* C13: set_audio_output(n, target) fails for every n outside 1..10 and
\* leaves the tree unchanged; for n in 1..10, on a loaded Document of a
\* supported version holding the two nodes, it writes
\* "AudioOut/External/S<n-1>" and "<2n-1>/<2n>" to the Target and
\* LowerDisplayString nodes under DeviceChain, and under MasterChain only
\* when the DeviceChain Target is absent.
C13_AudioOutputSlot ==
    [][ (calls' = calls + 1 /\ last'.op = "set_audio_output") =>
          LET n == last'.arg[1]
              track == last'.arg[2]
          IN IF n \notin 1..10
             THEN last'.exc # "none" /\ root' = root
             ELSE ( /\ root # NoneValue
                    /\ version_tuple # <<>>
                    /\ LexGE(version_tuple, <<8, 2, 0>>)
                    /\ LET chain == ChainFor(root.AudioOutputRouting[track])
                       IN /\ root.AudioOutputRouting[track][chain].Target # <<>>
                          /\ root.AudioOutputRouting[track][chain].LowerDisplayString # <<>> )
                  => LET chain == ChainFor(root.AudioOutputRouting[track])
                         old == root.AudioOutputRouting[track]
                         new == root'.AudioOutputRouting[track]
                     IN /\ last'.exc = "none"
                        /\ new[chain].Target[1] = "AudioOut/External/S" \o TwoDigits(n - 1)
                        /\ new[chain].LowerDisplayString[1] =
                               TwoDigits(2 * n - 1) \o "/" \o TwoDigits(2 * n)
                        /\ new[OtherChain(chain)] = old[OtherChain(chain)]
      ]_vars

\* C13 witness: slot 10 was written for the master track of a Live 8.2 tree,
\* whose routing is under MasterChain only.
C13_Witness ==
    /\ last.op = "set_audio_output"
    /\ last.arg = <<10, "MasterTrack">>
    /\ last.exc = "none"
    /\ version_tuple = <<8, 2, 0>>
    /\ root.AudioOutputRouting.MasterTrack.DeviceChain.Target = <<>>
    /\ root.AudioOutputRouting.MasterTrack.MasterChain =
           Routing(<<"AudioOut/External/S9">>, <<"19/20">>)

\* The thread running write_set is between its start and its end.
ThreadWriting == thread_pc \in {"open", "write", "restore"}

\* save_set returns in this step.
SaveSetReturns == save_pc = "join" /\ save_pc' = "ready"

\* The container at self.path holds the whole tree and has the modification
\* time the set had when it was parsed.
WrittenAndRestored ==
    /\ save_path \in DOMAIN disk
    /\ root # NoneValue
    /\ disk[save_path].data = [magic |-> "1f8b", data |-> root]
    /\ last_modification_time # <<>>
    /\ disk[save_path].mtime = last_modification_time[1]

\* C14: save_set returns only after the thread running write_set has
\* ended; when it returns the container has been fully written and the
\* original timestamps restored; and no operation of the calling thread on
\* the Document runs while the thread is writing.
C14_JoinBeforeReturn ==
    [][ /\ SaveSetReturns => (thread_pc' = "finished" /\ WrittenAndRestored')
        /\ ThreadWriting => (save_pc = "join" /\ UNCHANGED docVars) ]_vars

\* A file of the set directory is created or rewritten in this step.
WritesSetDirectory ==
    \E name \in DOMAIN disk' : name \notin DOMAIN disk \/ disk'[name] # disk[name]

\* C15: create_backup never replaces or removes a file of the backup
\* directory: it moves the original to <stem>__N<suffix> for the smallest
\* N >= 1 not present, so every earlier backup is still there with its
\* content after any number of save_set calls, and the backup is made before
\* the new container is written.
C15_BackupsKept ==
    [][ /\ \A k \in DOMAIN backup_dir :
               k \in DOMAIN backup_dir' /\ backup_dir'[k] = backup_dir[k]
        /\ backup_dir' # backup_dir =>
               /\ save_path \in DOMAIN disk
               /\ \E n \in 1..MaxBackups :
                      /\ \A m \in 1..(n - 1) : <<save_path, m>> \in DOMAIN backup_dir
                      /\ <<save_path, n>> \notin DOMAIN backup_dir
                      /\ DOMAIN backup_dir' = DOMAIN backup_dir \cup {<<save_path, n>>}
                      /\ backup_dir'[<<save_path, n>>] = disk[save_path]
               /\ save_path \notin DOMAIN disk'
               /\ ~ThreadWriting
        /\ WritesSetDirectory =>
               /\ ThreadWriting
               /\ backup_path \in DOMAIN backup_dir
               /\ backup_dir' = backup_dir ]_vars

\* C15 witness: two saves of a parsed set whose backup directory held a
\* backup numbered 2: the original went to number 1, the container of the
\* first save to number 3, and the earlier backup is as it was.
C15_Witness ==
    /\ save_count = 2
    /\ save_pc = "ready"
    /\ save_path = OriginalName
    /\ root # NoneValue
    /\ DOMAIN backup_dir = {<<OriginalName, 1>>, <<OriginalName, 2>>, <<OriginalName, 3>>}
    /\ backup_dir[<<OriginalName, 2>>] = EarlierFile
    /\ backup_dir[<<OriginalName, 1>>] = SetFile(file, 1)
    /\ backup_dir[<<OriginalName, 3>>].data.magic = "1f8b"
    /\ backup_dir[<<OriginalName, 3>>].data.data # NoneValue
    /\ backup_dir[<<OriginalName, 3>>].data.data # root

\* The failures of a Document named by the claim: a format error (parse
\* returned False), an unparseable version string, an operation refused for
\* the version of the set, and a missing element.
FormatError(out) == out.op = "parse" /\ out.ret = "False"

VersionUnparseable(out) == out.op = "load_version" /\ out.exc = "SetError" /\ out.body

UnsupportedForVersion(out) ==
    out.exc = "SetError" /\ ~out.body /\ out.log = "not supported for this version!"

MissingElement(out) == out.exc = "ElementNotFound"

ListedFailure(out) ==
    \/ FormatError(out)
    \/ VersionUnparseable(out)
    \/ UnsupportedForVersion(out)
    \/ MissingElement(out)

\* C16: batch processing never aborts on one Document's failure: after a
\* format error, an unparseable version string, an operation unsupported
\* for the version or a missing element, process() goes on to the next
\* Document, so every Document of the batch is attempted.
C16_BatchGoesOn ==
    terminal =>
        /\ ~(proc_pc = "aborted" /\ ListedFailure(last))
        /\ proc_pc \in {"aborted", "returned 0"} =>
               attempted = [i \in 1..Len(batch) |-> i]

\* What parse() hands to its caller for a container: it returns False for
\* the legacy magic, for any other prefix that is not gzip's and for a gzip
\* container without data, and True otherwise; it raises in none of these.
ParseReturn(f) ==
    IF f.magic = "ab1e" THEN "False"
    ELSE IF f.magic # "1f8b" THEN "False"
    ELSE IF f.data = NoneValue THEN "False"
    ELSE "True"

\* parse() was called in this step.
ParseCalled == calls' = calls + 1 /\ last'.op = "parse"

\* C17: parse() tells the two container failures apart by its outcome: the
\* outcome for a file starting with AB 1E differs, for the caller, from the
\* outcome for any other prefix that is not gzip's; in both cases root stays
\* unset, and only a file starting with 1F 8B is decompressed and parsed.
C17_LegacyDistinct ==
    [][ ParseCalled =>
          /\ <<last'.ret, last'.exc>> = <<ParseReturn(file), "none">>
          /\ file.magic # "1f8b" => root' = root
          /\ root' # root => (file.magic = "1f8b" /\ root' = file.data)
          /\ file.magic = "ab1e" =>
                 \A g \in Files :
                     g.magic \notin {"ab1e", "1f8b"} =>
                         ParseReturn(g) # last'.ret
      ]_vars

\* The calls of _fix_sample, in collect-and-save mode, that accepted an
\* entry and found in the project folder a file of its name whose size is
\* neither the size of the candidate file nor the size the reference
\* declares.
CollectConflicts ==
    { x \in FixTests :
        LET t == fix_log[x[1]].tests[x[2]]
        IN /\ collect_and_save
           /\ t.accepted
           /\ t.exc = ""
           /\ t.target_existed
           /\ t.target_size # t.candidate_size
           /\ t.target_size # PassRef(x[1]).size }

\* C18: with collect_and_save and force both set, fix_samples replaces a
\* same-named file already in the project folder when that file has a
\* different size; with force unset it refuses to replace it.
C18_ForceReplaces ==
    \A x \in CollectConflicts :
        LET t == fix_log[x[1]].tests[x[2]]
        IN IF force
           THEN t.ret /\ t.copied /\ t.fs_changed
           ELSE ~t.ret /\ ~t.copied /\ ~t.fs_changed

\* The struct decoder ran on the bytes of the Data text.
MacDecoded == codec_pc = "done" /\ path_str = NoneValue /\ codec_out.dispatch = "mac"

\* The acceptance test as claimed, for the length byte at 0-based offset i:
\* (a) i+L+1 is an index of the input, (b) no zero in the payload i+1..i+L,
\* (c) the byte at i+L+1 is zero.
AcceptedAsClaimed(byte_data, i) ==
    LET L == byte_data[i + 1]
    IN /\ i + L + 1 <= Len(byte_data) - 1
       /\ \A k \in (i + 1)..(i + L) : byte_data[k + 1] # 0
       /\ byte_data[i + L + 2] = 0

\* The segments of a scan that skips 0x00 and 0xFF, accepts as claimed,
\* resumes at i+L+2 after an acceptance and at i+1 after a rejection.
RECURSIVE ScanAsClaimed(_, _, _)
ScanAsClaimed(byte_data, i, acc) ==
    IF i > Len(byte_data) - 1 THEN acc
    ELSE IF byte_data[i + 1] \in {0, 255} THEN ScanAsClaimed(byte_data, i + 1, acc)
    ELSE IF AcceptedAsClaimed(byte_data, i)
    THEN ScanAsClaimed(byte_data, i + byte_data[i + 1] + 2,
                       Append(acc, SubSeq(byte_data, i + 2, i + byte_data[i + 1] + 1)))
    ELSE ScanAsClaimed(byte_data, i + 1, acc)

\* C19: the struct (mac) decoder, scanning from offset 6 and skipping 0x00
\* and 0xFF, accepts a candidate with length byte L at offset i if and only
\* if i+L+1 is a valid index, no zero occurs in the payload and the byte at
\* i+L+1 is zero, also when that zero is the last byte of the input; it
\* resumes at i+L+2 after an acceptance and at i+1 after a rejection.
C19_MacAcceptance ==
    MacDecoded => MacScan(raw_bytes, 6, <<>>) = ScanAsClaimed(raw_bytes, 6, <<>>)

\* C20: the struct (mac) decoder returns the text of the last accepted
\* segment followed by the text of the second-to-last one, whatever the
\* number of accepted segments (>= 2); it returns no value, without raising,
\* when fewer than two were accepted or one of the two is not decodable.
C20_LastTwoReversed ==
    MacDecoded =>
        LET segments == MacScan(raw_bytes, 6, <<>>)
            n == Len(segments)
        IN IF n >= 2 /\ Utf8Decode(segments[n]).ok /\ Utf8Decode(segments[n - 1]).ok
           THEN codec_out.result =
                    StrValue(Utf8Decode(segments[n]).str \o Utf8Decode(segments[n - 1]).str)
           ELSE codec_out.result = NoneValue

\* C20 witness: three segments "A", "/B", "A" were accepted and the result
\* is "A" followed by "/B".
C20_Witness ==
    /\ MacDecoded
    /\ raw_bytes = <<0, 0, 0, 0, 0, 0, 1, 65, 0, 2, 47, 66, 0, 1, 65, 0, 0>>
    /\ Len(MacScan(raw_bytes, 6, <<>>)) = 3
    /\ codec_out.result = StrValue(<<65, 47, 66>>)

\* The entry matches the reference: same name, and the size or the
\* last-modified time the reference declares.
EntryMatches(info, ref) ==
    /\ info.name = ref.name
    /\ \/ ref.size # 0 /\ info.size = ref.size
       \/ ref.last_modified # 0 /\ info.last_modified.whole = ref.last_modified

\* The step is a pass of fix_samples that found its reference unresolved
\* and went on to look for an entry.
SearchStep ==
    /\ fix_pc \in {"iter_tree", "iter_list"}
    /\ Len(fix_log') = Len(fix_log) + 1
    /\ LET pass == fix_log'[Len(fix_log')]
       IN \/ pass.outcome \in {"fixed", "unfixed"}
          \/ pass.outcome = "raised" /\ pass.via # ""

\* No entry of found_samples or of the database matches the reference of
\* the pass.
NoEntryMatches ==
    LET ref == ableton_set'.sample_list[fix_i]
    IN /\ \A k \in DOMAIN found_samples : ~EntryMatches(found_samples[k].info, ref)
       /\ \A k \in DOMAIN db : ~EntryMatches(db[k].info, ref)

\* C21: when no index entry (cached or from the full index) matches an
\* unresolved reference, fix_samples reports it as unfixable, leaves every
\* node of the reference unchanged and does not increment the fixed count.
C21_NoMatchUnchanged ==
    [][ (SearchStep /\ NoEntryMatches) =>
            /\ fix_log'[Len(fix_log')].outcome = "unfixed"
            /\ fix_exc' = ""
            /\ ableton_set'.SampleRef = ableton_set.SampleRef
            /\ fs' = fs
            /\ found_samples' = found_samples
            /\ fixed_samples' = fixed_samples
            /\ missing_samples' = missing_samples + 1 ]_vars

\* C21 witness: the run for a reference kick.wav against a database holding
\* snare.wav only ended with one missing, none fixed, one not fixed.
C21_Witness ==
    /\ fix_pc = "done"
    /\ Len(fix_log) = 1
    /\ fix_log[1].outcome = "unfixed"
    /\ Len(fix_log[1].tests) = 1
    /\ fix_log[1].tests[1].info.name = "snare.wav"
    /\ ~fix_log[1].tests[1].accepted
    /\ report = [missing_samples |-> 1, fixed_samples |-> 0, couldnt_fix |-> 1, logged |-> TRUE]

\* The pieces of a str between the occurrences of a separator.
RECURSIVE SplitOn(_, _)
SplitOn(s, sep) ==
    IF \A i \in DOMAIN s : s[i] # sep THEN <<s>>
    ELSE LET at == CHOOSE i \in DOMAIN s : s[i] = sep /\ \A j \in 1..(i - 1) : s[j] # sep
         IN <<SubSeq(s, 1, at - 1)>> \o SplitOn(SubSeq(s, at + 1, Len(s)), sep)

\* The version a creator string "Ableton Live M.m", "Ableton Live M.m.p" or
\* "Ableton Live M.mbN" stands for, as claimed: (M, m, 0), (M, m, p) and
\* (M, m, 0).
VersionToken(creator) == SubSeq(creator, Len(CreatorPrefix) + 1, Len(creator))

VersionAsClaimed(creator) ==
    LET numbers == SplitOn(SplitOn(VersionToken(creator), "b")[1], ".")
    IN << ParseInt(numbers[1]), ParseInt(numbers[2]),
          IF Len(numbers) >= 3 THEN ParseInt(numbers[3]) ELSE 0 >>

\* load_version was called in this step on a tree with a Creator string.
LoadVersionCalled ==
    /\ calls' = calls + 1
    /\ last'.op = "load_version"
    /\ root # NoneValue
    /\ root.Creator.kind = "str"

\* C22: load_version accepts a creator string with 2 or 3 numeric version
\* components: "Ableton Live M.m" gives (M, m, 0), "Ableton Live M.m.p"
\* gives (M, m, p), and a beta marker as in "Ableton Live M.mbN" gives patch
\* 0 with a warning and no error; a creator string matching no pattern fails
\* with SetError and leaves version_tuple unset.
C22_VersionComponents ==
    [][ LoadVersionCalled =>
          IF StartsWithAt(root.Creator.val, 1, CreatorPrefix)
          THEN /\ last'.exc = "none"
               /\ version_tuple' = VersionAsClaimed(root.Creator.val)
               /\ Contains(VersionToken(root.Creator.val), <<"b">>) =>
                      last'.log = "beta warning"
          ELSE /\ last'.exc = "SetError"
               /\ version_tuple' = version_tuple
      ]_vars

\* find_project_root_folder was called in this step.
FindCalled == fix_pc = "find" /\ Len(fix_log') = Len(fix_log) + 1

\* The nearest of the first n ancestors of the set file holding a marker,
\* or None.
NearestMarked(n) ==
    LET parents == Parents(ableton_set.path)
        marked == { i \in 1..MinOf(n, Len(parents)) : Marker(parents[i]) \in DOMAIN fs }
    IN IF marked = {} THEN NoneValue
       ELSE StrValue(parents[CHOOSE i \in marked : \A j \in marked : i <= j])

\* C23: find_project_root_folder returns the nearest ancestor directory of
\* the set file that contains "Ableton Project Info", examines at most
\* maxDepth = 10 ancestors and returns none when no marker is found among
\* them; once a root has been found, later calls return the same root
\* without searching again.
C23_NearestWithinDepth ==
    [][ FindCalled =>
          LET ret == fix_log'[Len(fix_log')].ret
          IN /\ ableton_set.project_root_folder # NoneValue =>
                    ret = ableton_set.project_root_folder
             /\ ableton_set.project_root_folder = NoneValue =>
                    ret = NearestMarked(max_folder_search_depth)
             /\ ableton_set'.project_root_folder = ret
      ]_vars

\* A pass of the loop of fix_samples or _list_samples is made in this step.
PassStep ==
    /\ fix_pc \in {"iter_tree", "iter_list", "list_tree", "list_list"}
    /\ Len(fix_log') = Len(fix_log) + 1

\* The pass parses its reference from the tree.
FromTree == fix_pc \in {"iter_tree", "list_tree"}

\* The Data text of the reference of this pass is malformed hex text, or
\* bytes the path decoder called cannot decode.
DecodeError ==
    /\ FromTree
    /\ ~IsModern(ableton_set.version_tuple)
    /\ parse_hex_path(StrValue(ableton_set.SampleRef[fix_i].Data)).result.kind
           \in {"ValueError", "None"}

\* C24: a decode error on one reference (malformed hex text, or bytes that
\* neither path decoder can decode) is confined to that reference: the
\* reference is built with no absolute path, counts as having no resolvable
\* absolute path, and list_samples and fix_samples go on to the remaining
\* references without raising.
C24_DecodeErrorConfined ==
    [][ (PassStep /\ DecodeError) =>
            /\ fix_exc' = ""
            /\ fix_pc' = fix_pc
            /\ Len(ableton_set'.sample_list) = Len(ableton_set.sample_list) + 1
            /\ ableton_set'.sample_list[fix_i].absolute = NoneValue
            /\ fix_log'[Len(fix_log')].outcome # "resolved"
      ]_vars

\* The reference of this pass was built (now or by an earlier pass).
Built == Yielded(FromTree, fix_i).exc = ""

BuiltRef == Yielded(FromTree, fix_i).ref

\* C25: when the project root was not found, the resolution check of every
\* reference treats its project-relative path as not existing and decides on
\* the absolute path alone, without raising, for both schemas; in particular
\* a modern-schema reference with a non-empty RelativePath and a missing
\* absolute file is reported as unresolved.
C25_RootlessAbsoluteAlone ==
    [][ (PassStep /\ ableton_set.project_root_folder = NoneValue /\ Built) =>
            /\ fix_exc' # "TypeError"
            /\ (fix_log'[Len(fix_log')].outcome = "resolved")
                   <=> absolute_exists(BuiltRef, fs, dirs)
            /\ ~absolute_exists(BuiltRef, fs, dirs) =>
                   missing_samples' = missing_samples + 1
      ]_vars

\* The reference of this pass was fixed by the first fix_samples call, which
\* has ended (the passes of the first call are the first entries of fix_log).
FixedBefore ==
    /\ Runs = 2
    /\ fix_i <= Len(fix_log)
    /\ fix_log[fix_i].outcome = "fixed"
    /\ \A k \in 1..fix_i : fix_log[k].outcome # "end"

\* C26: after fix_samples has fixed a reference and the replacement file
\* exists, the reference counts as resolved: a second fix_samples or
\* list_samples run on the same Document does not count it as missing again
\* and does not rewrite it.
C26_FixedStaysResolved ==
    [][ (PassStep /\ FixedBefore) =>
            /\ fix_log'[Len(fix_log')].outcome = "resolved"
            /\ missing_samples' = missing_samples
            /\ fix_log'[Len(fix_log')].tests = <<>>
            /\ ableton_set'.SampleRef = ableton_set.SampleRef
      ]_vars

\* No call of list_samples or fix_samples is under way.
BetweenCalls == fix_pc \in {"call", "list_call", "done", "raised"}

\* C27: whenever sample_list is non-empty it holds exactly one SampleRef per
\* SampleRef node of the tree, in document order, so every later
\* _iterate_samples pass visits all references; this holds also after a
\* first pass that stopped part-way because an exception was raised while
\* handling a reference.
C27_SampleListComplete ==
    (BetweenCalls /\ ableton_set.sample_list # <<>>) =>
        /\ Len(ableton_set.sample_list) = Len(ableton_set.SampleRef)
        /\ \A k \in DOMAIN ableton_set.sample_list : ableton_set.sample_list[k].element = k

\* _fix_sample called parsed.set_relative in this step (line 745).
SetRelativeCalled ==
    /\ MatchedStep
    /\ collect_and_save
    /\ ableton_set.project_root_folder # NoneValue

\* The path set_relative was given: the target below the project root.
RelativeGiven ==
    LET target == LastTest(fix_log'[Len(fix_log')]).target
    IN SubSeq(target, Len(ableton_set.project_root_folder.val) + 2, Len(target))

\* path.split("/")[:-1]
FoldersOf(path) == SubSeq(SplitSlash(path), 1, Len(SplitSlash(path)) - 1)

\* C28: for a legacy-schema (pre-11) reference, set_relative(path) replaces
\* the RelativePathElement children by one element per directory component
\* of path, in order, whatever the number of children the RelativePath node
\* had before (0, 1, or more); afterwards get_relative_value() returns the
\* directory part of path.  For the modern schema the same read-back holds
\* on the Value attribute.
C28_SetRelativeReadBack ==
    [][ SetRelativeCalled =>
            /\ fix_exc' = ""
            /\ get_relative_value(ableton_set'.SampleRef[fix_i], ableton_set.version_tuple)
                   = PathParent(RelativeGiven)
            /\ ~IsModern(ableton_set.version_tuple) =>
                   ableton_set'.SampleRef[fix_i].RelativePathElement
                       = FoldersOf(RelativeGiven)
      ]_vars

\* load_tracks appended tracks in this step.
TracksLoaded == last'.op = "load_tracks" /\ Len(tracks') > Len(tracks)

\* C29: the schema generation is chosen the same way everywhere: for every
\* version triple v the Track view uses the modern colour node ("Color")
\* exactly when the SampleReference view uses the modern plain-string
\* fields, i.e. exactly when v >= (11,0,0); in particular both use the
\* modern shape for v = (11,0,0).
C29_SameSchemaChoice ==
    [][ TracksLoaded =>
            \A k \in (Len(tracks) + 1)..Len(tracks') :
                (tracks'[k].color_element = "Color") <=> IsModern(version_tuple) ]_vars

\* set_audio_output was called in this step.
SetAudioOutputCalled == calls' = calls + 1 /\ last'.op = "set_audio_output"

\* The tree after differs from the tree before in nothing but the first
\* Target and the first LowerDisplayString of the chain, which hold the
\* values of the table entry n.
BothSet(before, after, track, chain, n) ==
    /\ before # NoneValue
    /\ before.AudioOutputRouting[track][chain].Target # <<>>
    /\ before.AudioOutputRouting[track][chain].LowerDisplayString # <<>>
    /\ after = [before EXCEPT !.AudioOutputRouting[track][chain] =
                   Routing(<<STEREO_OUTPUTS[n].target>> \o Tail(@.Target),
                           <<STEREO_OUTPUTS[n].lower_display_string>>
                               \o Tail(@.LowerDisplayString))]

\* C30: set_audio_output is all-or-nothing on the tree: in every outcome
\* either both the Target and the LowerDisplayString attribute were set to
\* the values of the same table entry, or neither was changed (invalid slot,
\* unsupported version, or one of the two nodes missing); no other node of
\* the tree is changed.
C30_AudioOutputAllOrNothing ==
    [][ SetAudioOutputCalled =>
          IF last'.exc = "none"
          THEN /\ last'.arg[1] \in DOMAIN STEREO_OUTPUTS
               /\ \E chain \in {"DeviceChain", "MasterChain"} :
                      BothSet(root, root', last'.arg[2], chain, last'.arg[1])
          ELSE root' = root
      ]_vars

\* C30 witness: the call found the Target of the master track and not its
\* LowerDisplayString, and the Target is as it was.
C30_Witness ==
    /\ last.op = "set_audio_output"
    /\ last.arg = <<1, "MasterTrack">>
    /\ last.exc = "ElementNotFound"
    /\ last.log = "LowerDisplayString"
    /\ root # NoneValue
    /\ root.AudioOutputRouting.MasterTrack.DeviceChain =
           Routing(<<"AudioOut/External/S3">>, <<>>)

====
